---- MODULE Spec2Model ----
(***************************************************************************)
(* A state-machine model of the arbitrage scanner's core:                  *)
(*   - the RPC transport with endpoint health and failover                 *)
(*     (utils/rpc_manager.py),                                             *)
(*   - the token-bucket rate governor (utils/rate_limiter.py),             *)
(*   - the scan pipeline: REST/stream/DEX quotes, the reliability filter,  *)
(*     the price matrix, the opportunity enumerator                        *)
(*     (core/arbitrage_engine.py, exchanges/cex, exchanges/dex),           *)
(*   - the stream subscription coverage (exchanges/cex/ws_fetcher.py),     *)
(*   - the triangular strategy (core/strategies/triangular.py).            *)
(* Each component has its own specification (SpecRPC, SpecBucket,          *)
(* SpecScan, SpecOutage, SpecTri, SpecStream, SpecRun, SpecBoot, SpecCost, *)
(* SpecMulticall, SpecSelect, SpecTimedCall, SpecGasUmbrella, SpecWatch,   *)
(* SpecV3Quote, SpecLiquidity, SpecMatrix; SpecBucketFair and              *)
(* SpecWatchFair add the fairness of the event loop's clock and timer)     *)
(* over the one set of variables; a component that a specification does    *)
(* not exercise stays in its idle state.                                   *)
(***************************************************************************)
EXTENDS Integers, Sequences, FiniteSets, TLC

(***************************************************************************)
(* Bounds of the model.                                                    *)
(***************************************************************************)
\* Configured endpoints per chain (len(config.rpc_endpoints)).
NumEndpoints == 3
\* The model clock of the RPC transport stops here (seconds).
RpcMaxTime == 60
\* Seconds the clock advances in one step.
RpcTickSecs == 30

\* Largest burst size of a registered rate bucket.
MaxBurst == 2
\* Slowest registered bucket: clock ticks per token (1 / rate).
MaxPeriod == 2
\* The model clock of the rate governor stops here (ticks).
RlMaxTime == 3

(***************************************************************************)
(* Program constants of the RPC transport.                                 *)
(***************************************************************************)
\* is_healthy: "failures >= 3".
UnhealthyFailures == 3
\* is_healthy: "time.time() - self.last_failure < 60".
QuarantineSecs == 60
\* call: "asyncio.wait_for(execute_call(), timeout=20.0)".
CallTimeoutSecs == 20
\* _get_web3: AsyncHTTPProvider(url, request_kwargs={"timeout": 15}).
ProviderTimeoutSecs == 15

VARIABLES
    \* ---- RPC transport -------------------------------------------------
    rpc_now,          \* time.time(), whole seconds
    endpoint_health,  \* RPCManager._endpoint_health of one chain: url index -> record
    rpc_behaviour,    \* per endpoint: "fail" | "ok" | "flaky" (the environment)
    rpc_call,         \* per caller: the frame of RPCManager.call
    \* ---- rate governor ------------------------------------------------
    rl_now,           \* time.monotonic(), in clock ticks
    limiters,         \* MultiRateLimiter._limiters: key -> bucket, or NoBucket
    rl_caller,        \* per caller: the frame of acquire()
    rl_returned,      \* history: key -> tick -> acquire() calls that returned then
    \* ---- scan pipeline ------------------------------------------------
    scan_pc,          \* position of ArbitrageEngine.scan: "idle" | "fetching" | "returned"
    scan_done,        \* the gathered tasks that have completed: subset of ScanTasks
    cex_prices,       \* scan(): cex_prices, symbol -> list of CEXPrice
    dex_prices,       \* scan(): dex_prices, symbol -> list of DEXQuote
    gas_result,       \* scan(): gas_estimates as gathered, chain -> estimate
    gas_estimates,    \* ArbitrageEngine._gas_estimates
    ws_latest,        \* CCXTProFetcher._latest_prices: venue -> symbol -> WSPrice
    price_matrix,     \* scan(): price_matrix, symbol -> list of PriceSource
    opportunities,    \* the list scan() returns (ArbitrageEngine._opportunities)
    triangular_opps,  \* ArbitrageEngine._triangular_opps
    \* ---- triangular strategy run on a snapshot -------------------------
    tri_pc,           \* "idle" | "ready" | "done"
    tri_cex_prices,   \* the cex_prices argument: symbol -> list of CEXPrice
    \* ---- stream subscription coverage ---------------------------------
    stream_pc,        \* "idle" | "new" | "ready" | "scanned"
    discovered_pairs, \* ArbitrageEngine._discovered_pairs: size and order
    exchange_markets, \* exchange.markets of every CEX venue
    ws_exchanges,     \* ws_fetcher._exchanges: the venues that stream
    hot_symbols,      \* per streamed venue: the symbols its watcher subscribes
    rest_symbols,     \* per venue: the symbols the scan's REST fetch asks for
    \* ---- run_continuous ------------------------------------------------
    run_pc,           \* the await run_continuous is suspended at
    run_exit,         \* how run_continuous ended: "none" | "returned" | "CancelledError"
    run_timer,        \* the duration in ms of the sleep it is in, else 0
    run_log,          \* what the current iteration has done so far
    run_scans,        \* per scan() invocation, in order: its outcome
    run_ticks,        \* per callback invocation, in order: the scan it got the list of
    \* ---- start-up with failing venues and chains ------------------------
    boot_pc,          \* where ArbitrageEngine.initialize / scan stands
    handshake,        \* per venue: _init_exchange's attempt count and outcome
    boot_markets,     \* per venue: the pairs its market list holds
    boot_ws,          \* ws_fetcher._exchanges: the stream venues constructed
    boot_gas,         \* the chains _gas_estimates has an entry for
    boot_harvest,     \* what the last harvest returned
    boot_pairs,       \* ArbitrageEngine._discovered_pairs, as a set
    boot_asked,       \* per venue: the symbols the scan's REST fetch asks for
    boot_raised,      \* the exception that left initialize() or scan(), or "none"
    \* ---- cost-model scenarios -------------------------------------------
    cost_pc,          \* "idle" | "ready" | "done"
    cost_matrix,      \* price_matrix of the scenario: symbol -> list of PriceSource
    cost_opps,        \* what _find_opportunities returned for it
    \* ---- Multicall.aggregate --------------------------------------------
    mc_pc,            \* "idle" | "ready" | "awaiting" | "decoding" | "returned" | "raised"
    mc_calls,         \* the list of Call passed to aggregate
    mc_results,       \* what aggregate3 returned: list of (success, return_data)
    mc_decoded,       \* decoded_results
    \* ---- _get_best_endpoint on a manager of several chains ---------------
    sel_pc,           \* "idle" | "ready" | "returned"
    sel_now,          \* time.time() at the call, in seconds
    sel_chain,        \* the chain_id passed
    sel_before,       \* _endpoint_health at the call: chain -> url -> health
    sel_health,       \* _endpoint_health
    sel_url,          \* the url returned, 0 before the return
    \* ---- RPCManager.call against the clock --------------------------------
    tc_pc,            \* "idle" | "select" | "inflight" | "done"
    tc_clock,         \* seconds since call() was entered
    tc_started,       \* start_time of the attempt in flight
    tc_attempt,       \* loop iterations finished
    tc_url,           \* the endpoint of the attempt in flight
    tc_health,        \* _endpoint_health of the chain
    tc_behaviour,     \* per endpoint: "ok" | "fail" | "hang"
    tc_result,        \* "none" | "returned" | "raised"
    \* ---- GasEstimator.get_all_gas_estimates against the clock ---------------
    ge_pc,            \* "idle" | "gathering" | "returned" | "timed_out"
    ge_clock,         \* seconds since wait_for was entered
    ge_tasks,         \* per chain: the get_gas_estimate task and its result
    ge_results,       \* the dict returned: chain -> no entry, or swap_cost_usd
    \* ---- CCXTProFetcher: the watcher tasks ---------------------------------
    wt_running,       \* ws_fetcher._running
    wt_exchanges,     \* keys of ws_fetcher._exchanges
    wt_valid,         \* per venue: some symbol of the call is in exchange.markets
    wt_task,          \* per venue: where its _watch_exchange_tickers task stands
    wt_slept,         \* per venue: seconds of the sleep(5) that have passed
    wt_cached,        \* per venue: _latest_prices holds a price of the venue
    wt_polled,        \* the venues the last scan asked by REST; None before a scan
    \* ---- UniswapV3DEX.get_price ---------------------------------------------
    v3_pc,            \* "idle" | "called" | "done"
    v3_setup,         \* what precedes the tier loop succeeds, or raises
    v3_quotes,        \* per fee tier: what quoteExactInputSingle does
    v3_price,         \* the DEXPrice returned, or None
    \* ---- DEXAggregator.get_price: the liquidity floor ------------------------
    ag_pc,            \* "idle" | "called" | "done"
    ag_kind,          \* the adapter: "V2" | "V3"
    ag_quote_symbol,  \* quote_symbol of the call
    ag_pool,          \* the pool's reserves: res_in (base), res_out (quote)
    ag_reserves_ok,   \* the adapter's reserve calls succeed
    ag_spot,          \* spot_price_data.price in 1/1000, None for no price
    ag_quote,         \* the DEXQuote returned, or None
    \* scan() over a universe of (base, quote) pairs
    mx_pc,              \* "idle", "gathered" or "built"
    mx_pairs,           \* self._discovered_pairs: a list of (base, quote)
    mx_latest,          \* ws_fetcher._latest_prices: venue -> symbol -> price
    mx_cex,             \* cex_prices: normalized symbol -> list of CEXPrice
    mx_dex,             \* dex_prices: normalized symbol -> list of DEXQuote
    mx_matrix           \* price_matrix: normalized symbol -> list of PriceSource

rpcVars == <<rpc_now, endpoint_health, rpc_behaviour, rpc_call>>
rlVars == <<rl_now, limiters, rl_caller, rl_returned>>
scanVars == <<scan_pc, scan_done, cex_prices, dex_prices, gas_result,
              gas_estimates, ws_latest, price_matrix, opportunities,
              triangular_opps>>
triVars == <<tri_pc, tri_cex_prices>>
streamVars == <<stream_pc, discovered_pairs, exchange_markets, ws_exchanges,
                hot_symbols, rest_symbols>>

runVars == <<run_pc, run_exit, run_timer, run_log, run_scans, run_ticks>>

bootVars == <<boot_pc, handshake, boot_markets, boot_ws, boot_gas, boot_harvest,
              boot_pairs, boot_asked, boot_raised>>

costVars == <<cost_pc, cost_matrix, cost_opps>>

mcVars == <<mc_pc, mc_calls, mc_results, mc_decoded>>

selVars == <<sel_pc, sel_now, sel_chain, sel_before, sel_health, sel_url>>

tcVars == <<tc_pc, tc_clock, tc_started, tc_attempt, tc_url, tc_health, tc_behaviour, tc_result>>

geVars == <<ge_pc, ge_clock, ge_tasks, ge_results>>

wtVars == <<wt_running, wt_exchanges, wt_valid, wt_task, wt_slept, wt_cached, wt_polled>>

v3Vars == <<v3_pc, v3_setup, v3_quotes, v3_price>>

agVars == <<ag_pc, ag_kind, ag_quote_symbol, ag_pool, ag_reserves_ok, ag_spot, ag_quote>>

mxVars == <<mx_pc, mx_pairs, mx_latest, mx_cex, mx_dex, mx_matrix>>

vars == <<rpcVars, rlVars, scanVars, triVars, streamVars, runVars, bootVars,
          costVars, mcVars, selVars, tcVars, geVars, wtVars, v3Vars, agVars, mxVars>>

\* The variables of the components other than the named one.
notRpcVars == <<rlVars, scanVars, triVars, streamVars, runVars, bootVars, costVars,
                mcVars, selVars, tcVars, geVars, wtVars, v3Vars, agVars, mxVars>>
notRlVars == <<rpcVars, scanVars, triVars, streamVars, runVars, bootVars, costVars,
               mcVars, selVars, tcVars, geVars, wtVars, v3Vars, agVars, mxVars>>
notScanVars == <<rpcVars, rlVars, triVars, streamVars, runVars, bootVars, costVars,
                 mcVars, selVars, tcVars, geVars, wtVars, v3Vars, agVars, mxVars>>
notStreamVars == <<rpcVars, rlVars, scanVars, triVars, runVars, bootVars, costVars,
                   mcVars, selVars, tcVars, geVars, wtVars, v3Vars, agVars, mxVars>>
notRunVars == <<rpcVars, rlVars, scanVars, triVars, streamVars, bootVars, costVars,
                mcVars, selVars, tcVars, geVars, wtVars, v3Vars, agVars, mxVars>>
notBootVars == <<rpcVars, rlVars, scanVars, triVars, streamVars, runVars, costVars,
                 mcVars, selVars, tcVars, geVars, wtVars, v3Vars, agVars, mxVars>>
notCostVars == <<rpcVars, rlVars, scanVars, triVars, streamVars, runVars, bootVars,
                 mcVars, selVars, tcVars, geVars, wtVars, v3Vars, agVars, mxVars>>
notMcVars == <<rpcVars, rlVars, scanVars, triVars, streamVars, runVars, bootVars,
               costVars, selVars, tcVars, geVars, wtVars, v3Vars, agVars, mxVars>>
notSelVars == <<rpcVars, rlVars, scanVars, triVars, streamVars, runVars, bootVars,
                costVars, mcVars, tcVars, geVars, wtVars, v3Vars, agVars, mxVars>>
notTcVars == <<rpcVars, rlVars, scanVars, triVars, streamVars, runVars, bootVars,
               costVars, mcVars, selVars, geVars, wtVars, v3Vars, agVars, mxVars>>
notGeVars == <<rpcVars, rlVars, scanVars, triVars, streamVars, runVars, bootVars,
               costVars, mcVars, selVars, tcVars, wtVars, v3Vars, agVars, mxVars>>
notWtVars == <<rpcVars, rlVars, scanVars, triVars, streamVars, runVars, bootVars,
               costVars, mcVars, selVars, tcVars, geVars, v3Vars, agVars, mxVars>>
notV3Vars == <<rpcVars, rlVars, scanVars, triVars, streamVars, runVars, bootVars,
               costVars, mcVars, selVars, tcVars, geVars, wtVars, agVars, mxVars>>
notAgVars == <<rpcVars, rlVars, scanVars, triVars, streamVars, runVars, bootVars,
               costVars, mcVars, selVars, tcVars, geVars, wtVars, v3Vars, mxVars>>
notMxVars == <<rpcVars, rlVars, scanVars, triVars, streamVars, runVars, bootVars,
               costVars, mcVars, selVars, tcVars, geVars, wtVars, v3Vars, agVars>>

(***************************************************************************)
(*                            RPC TRANSPORT                                *)
(***************************************************************************)
Endpoints == 1..NumEndpoints
\* The tasks that call RPCManager.call; the first is the gas task of a scan
\* (GasEstimator.get_gas_estimate -> rpc_manager.get_gas_price).
GasCaller == "c1"
RpcCallers == {GasCaller}

\* Measured round-trip times in ms: (time.time() - start_time) * 1000.
LatencySamples == {2, 5}

\* float('inf') of "health.avg_latency_ms or float('inf')".
Inf == 1000000

\* RPCEndpointHealth(url=url): the dataclass defaults. last_success is
\* written by record_success and read nowhere; it is not part of the state.
NewHealth == [failures |-> 0, last_failure |-> 0, avg_latency_ms |-> 0]

\* RPCEndpointHealth.is_healthy at time t.
IsHealthy(h, t) ==
    ~(h.failures >= UnhealthyFailures /\ t - h.last_failure < QuarantineSecs)

\* 0.8 * avg + 0.2 * latency, kept to the nearest millisecond.
Ema(avg, latency_ms) == (8 * avg + 2 * latency_ms + 5) \div 10

\* RPCEndpointHealth.record_success.
RecordSuccess(h, t, latency_ms) ==
    [h EXCEPT !.failures = 0,
              !.avg_latency_ms = IF h.avg_latency_ms = 0 THEN latency_ms
                                 ELSE Ema(h.avg_latency_ms, latency_ms)]

\* RPCEndpointHealth.record_failure.
RecordFailure(h, t) ==
    [h EXCEPT !.failures = h.failures + 1, !.last_failure = t]

\* The healthy endpoints of _get_best_endpoint, as a set of url indexes.
HealthyEndpoints(health, t) == {u \in Endpoints : IsHealthy(health[u], t)}

\* The sort key: "health.avg_latency_ms or float('inf')".
LatencyKey(h) == IF h.avg_latency_ms = 0 THEN Inf ELSE h.avg_latency_ms

\* Variant of BestEndpoint that takes the first healthy endpoint whatever
\* the latencies.
FirstHealthyEndpoint(health, t) ==
    LET healthy == HealthyEndpoints(health, t) IN
    IF healthy = {} THEN 1
    ELSE CHOOSE u \in healthy : \A w \in healthy : u <= w

\* _get_best_endpoint, the url it returns: the healthy endpoint of least key,
\* the earliest configured one among equals (list.sort is stable); the first
\* configured endpoint when none is healthy.
BestEndpoint(health, t) ==
    LET healthy == HealthyEndpoints(health, t) IN
    IF healthy = {} THEN 1
    ELSE CHOOSE u \in healthy :
            \A w \in healthy :
                \/ LatencyKey(health[u]) < LatencyKey(health[w])
                \/ LatencyKey(health[u]) = LatencyKey(health[w]) /\ u <= w

\* Variant of HealthAfterSelect that resets only the endpoint it returns.
HealthAfterSelectFirstOnly(health, t) ==
    IF HealthyEndpoints(health, t) = {}
    THEN [health EXCEPT ![1].failures = 0]
    ELSE health

\* _get_best_endpoint, the health map it leaves: every failure count reset
\* when no endpoint is healthy.
HealthAfterSelect(health, t) ==
    IF HealthyEndpoints(health, t) = {}
    THEN [u \in Endpoints |-> [health[u] EXCEPT !.failures = 0]]
    ELSE health

\* The frame of a caller that is not in RPCManager.call.
\* failed_first: this call has recorded a failure on the first endpoint.
IdleCall == [pc |-> "idle", attempt |-> 0, url |-> 0, result |-> "none",
             failed_first |-> FALSE]

RpcInit ==
    /\ rpc_now = 0
    /\ endpoint_health = [u \in Endpoints |-> NewHealth]
    /\ rpc_behaviour \in [Endpoints -> {"fail", "ok", "flaky"}]
    /\ rpc_call = [k \in RpcCallers |-> IdleCall]

RpcIdle ==
    /\ rpc_now = 0
    /\ endpoint_health = [u \in Endpoints |-> NewHealth]
    /\ rpc_behaviour = [u \in Endpoints |-> "ok"]
    /\ rpc_call = [k \in RpcCallers |-> IdleCall]

\* call(): entry; the loop "for attempt in range(len(config.rpc_endpoints))"
\* starts with attempt 0.
CallStart(k) ==
    /\ rpc_call[k].pc = "idle"
    /\ rpc_call' = [rpc_call EXCEPT ![k] =
            [IdleCall EXCEPT !.pc = "select"]]
    /\ UNCHANGED <<rpc_now, endpoint_health, rpc_behaviour>>
    /\ UNCHANGED notRpcVars

\* One loop iteration up to the await: url = _get_best_endpoint(chain_id),
\* then the request is in flight.
CallSelect(k) ==
    /\ rpc_call[k].pc = "select"
    /\ rpc_call[k].attempt < NumEndpoints
    /\ rpc_call' = [rpc_call EXCEPT ![k].pc = "inflight",
                                    ![k].url = BestEndpoint(endpoint_health, rpc_now)]
    /\ endpoint_health' = HealthAfterSelect(endpoint_health, rpc_now)
    /\ UNCHANGED <<rpc_now, rpc_behaviour>>
    /\ UNCHANGED notRpcVars

\* The request returns: record_success(latency_ms), return result.
CallSucceed(k) ==
    /\ rpc_call[k].pc = "inflight"
    /\ rpc_behaviour[rpc_call[k].url] \in {"ok", "flaky"}
    /\ \E sample \in LatencySamples :
          LET u == rpc_call[k].url
              latency_ms == sample
              health == [endpoint_health EXCEPT
                            ![u] = RecordSuccess(endpoint_health[u], rpc_now, latency_ms)]
          IN /\ endpoint_health' = health
             /\ rpc_call' = [rpc_call EXCEPT ![k].pc = "done",
                                             ![k].attempt = rpc_call[k].attempt + 1,
                                             ![k].result = "returned"]
    /\ UNCHANGED <<rpc_now, rpc_behaviour>>
    /\ UNCHANGED notRpcVars

\* The request raises (an RPC error, or wait_for's timeout): record_failure(),
\* continue; after the last iteration "raise Exception(All RPC endpoints failed)".
CallFail(k) ==
    /\ rpc_call[k].pc = "inflight"
    /\ rpc_behaviour[rpc_call[k].url] \in {"fail", "flaky"}
    /\ LET u == rpc_call[k].url
           health == [endpoint_health EXCEPT
                         ![u] = RecordFailure(endpoint_health[u], rpc_now)]
           last == rpc_call[k].attempt + 1 = NumEndpoints
       IN /\ endpoint_health' = health
          /\ rpc_call' = [rpc_call EXCEPT
                ![k].pc = IF last THEN "done" ELSE "select",
                ![k].attempt = rpc_call[k].attempt + 1,
                ![k].result = IF last THEN "raised" ELSE "none",
                ![k].failed_first = rpc_call[k].failed_first \/ u = 1]
    /\ UNCHANGED <<rpc_now, rpc_behaviour>>
    /\ UNCHANGED notRpcVars

\* The caller takes the outcome and may call again.
CallReturn(k) ==
    /\ rpc_call[k].pc = "done"
    /\ rpc_call' = [rpc_call EXCEPT ![k] = IdleCall]
    /\ UNCHANGED <<rpc_now, endpoint_health, rpc_behaviour>>
    /\ UNCHANGED notRpcVars

\* Time passes.
RpcTick ==
    /\ rpc_now + RpcTickSecs <= RpcMaxTime
    /\ rpc_now' = rpc_now + RpcTickSecs
    /\ UNCHANGED <<endpoint_health, rpc_behaviour, rpc_call>>
    /\ UNCHANGED notRpcVars

RpcNext ==
    \/ \E k \in RpcCallers : CallStart(k)
    \/ \E k \in RpcCallers : CallSelect(k)
    \/ \E k \in RpcCallers : CallSucceed(k)
    \/ \E k \in RpcCallers : CallFail(k)
    \/ \E k \in RpcCallers : CallReturn(k)
    \/ RpcTick

(***************************************************************************)
(*                             RATE GOVERNOR                               *)
(* Time is counted in clock ticks. A bucket of rate r holds its period     *)
(* 1/r in ticks, and its token count in units of 1/period of a token, so   *)
(* that "elapsed * rate" adds one unit per tick and a whole token is       *)
(* `period` units.                                                         *)
(***************************************************************************)
\* The keys callers acquire on. Whether setup_rate_limiters has registered
\* the key is a choice of the initial state.
RlKeys == {"cex:a"}
RlCallers == {"a", "b", "c"}
RlTimes == 0..RlMaxTime

\* "key not in self._limiters".
NoBucket == [period |-> 0, burst |-> 0, tokens |-> 0, last_update |-> 0]

\* TokenBucketRateLimiter.__init__(rate, burst) at time t.
NewBucket(period, burst, t) ==
    [period |-> period, burst |-> burst, tokens |-> burst * period,
     last_update |-> t]

\* MultiRateLimiter.acquire: TokenBucketRateLimiter(10.0, 5) for a key that is
\* not registered; the clock ticks at that rate (one tick is 0.1 s).
DefaultBucket(t) == NewBucket(1, 5, t)

\* Min of two numbers.
Min(a, b) == IF a <= b THEN a ELSE b

\* acquire(): the refill, "if elapsed > 0: tokens = min(burst, tokens +
\* elapsed * rate); last_update = now".
Refill(b, t) ==
    IF t - b.last_update > 0
    THEN [b EXCEPT !.tokens = Min(b.burst * b.period,
                                  b.tokens + (t - b.last_update)),
                   !.last_update = t]
    ELSE b

\* acquire(): wait_time, "(1 - tokens) / rate" when tokens < 1, else 0.
WaitTime(b) == IF b.tokens < b.period THEN b.period - b.tokens ELSE 0

\* Variant of Consume that charges the token to a caller that has to wait,
\* leaving the count below zero.
ConsumeOnCredit(b) == [b EXCEPT !.tokens = b.tokens - b.period]

\* acquire(): the token count it leaves, 0 when it has to wait ("reserve
\* the token we're waiting for"), one token less otherwise.
Consume(b) ==
    IF b.tokens < b.period THEN [b EXCEPT !.tokens = 0]
    ELSE [b EXCEPT !.tokens = b.tokens - b.period]

IdleAcquire == [pc |-> "idle", key |-> "", wake |-> 0]

NoReturns == [key \in RlKeys |-> [t \in RlTimes |-> 0]]

\* The buckets setup_rate_limiters may have registered for a key.
RegisteredBuckets ==
    {NewBucket(period, burst, 0) : period \in 1..MaxPeriod, burst \in 1..MaxBurst}

RlInit ==
    /\ rl_now = 0
    /\ limiters \in [RlKeys -> RegisteredBuckets \cup {NoBucket}]
    /\ rl_caller = [c \in RlCallers |-> IdleAcquire]
    /\ rl_returned = NoReturns

RlIdle ==
    /\ rl_now = 0
    /\ limiters = [key \in RlKeys |-> NoBucket]
    /\ rl_caller = [c \in RlCallers |-> IdleAcquire]
    /\ rl_returned = NoReturns

\* MultiRateLimiter.acquire(key) up to the sleep: create the default bucket
\* for an unknown key, then TokenBucketRateLimiter.acquire under its lock
\* (no await inside, so the section is one step); with wait_time 0 the call
\* returns at once.
Acquire(c, key) ==
    /\ rl_caller[c].pc = "idle"
    /\ LET bucket == IF limiters[key] = NoBucket THEN DefaultBucket(rl_now)
                     ELSE limiters[key]
           filled == Refill(bucket, rl_now)
           wait_time == WaitTime(filled)
       IN /\ limiters' = [limiters EXCEPT ![key] = Consume(filled)]
          /\ IF wait_time > 0
             THEN /\ rl_now + wait_time <= RlMaxTime
                  /\ rl_caller' = [rl_caller EXCEPT ![c] =
                        [pc |-> "sleeping", key |-> key, wake |-> rl_now + wait_time]]
                  /\ UNCHANGED rl_returned
             ELSE /\ rl_caller' = rl_caller
                  /\ rl_returned' = [rl_returned EXCEPT ![key][rl_now] = @ + 1]
    /\ UNCHANGED rl_now
    /\ UNCHANGED notRlVars

\* "await asyncio.sleep(wait_time)" is over: acquire() returns.
Wake(c) ==
    /\ rl_caller[c].pc = "sleeping"
    /\ rl_caller[c].wake = rl_now
    /\ rl_returned' = [rl_returned EXCEPT ![rl_caller[c].key][rl_now] = @ + 1]
    /\ rl_caller' = [rl_caller EXCEPT ![c] = IdleAcquire]
    /\ UNCHANGED <<rl_now, limiters>>
    /\ UNCHANGED notRlVars

\* Time passes; a sleeper whose time has come wakes first.
RlTick ==
    /\ rl_now < RlMaxTime
    /\ \A c \in RlCallers : rl_caller[c].pc = "sleeping" => rl_caller[c].wake > rl_now
    /\ rl_now' = rl_now + 1
    /\ UNCHANGED <<limiters, rl_caller, rl_returned>>
    /\ UNCHANGED notRlVars

RlNext ==
    \/ \E c \in RlCallers, key \in RlKeys : Acquire(c, key)
    \/ \E c \in RlCallers : Wake(c)
    \/ RlTick

(***************************************************************************)
(*                            SCAN PIPELINE                                *)
(*                                                                         *)
(* Units.  Prices are integers counting 1e-10 of the quote currency (a     *)
(* token priced 0.00001 USDT is 100000), so that the enumerator's 1e-6     *)
(* guard is the integer TinyPrice.  Money is integer US cents.  Times are  *)
(* integer milliseconds on a clock whose reading when the matrix is built  *)
(* is BuildClock.  The quoted prices below are chosen so that the         *)
(* slippage and fee factors (k/10000) divide them exactly.                 *)
(***************************************************************************)
\* Optional[...] values: None, or a value.
None == <<>>
Some(v) == <<v>>
\* Python's `x or 0` and `not x` on an Optional number.
OrZero(x) == IF x = None THEN 0 ELSE x[1]
Falsy(x) == x = None \/ x[1] = 0

\* settings.MIN_PROFIT_USD (5.0 USD), in cents.
MIN_PROFIT_USD == 500
\* settings.DEFAULT_TRADE_SIZE_USD, in USD.
DEFAULT_TRADE_SIZE_USD == 1000
\* _build_price_matrix: "if age > 600" (seconds), in milliseconds.
CexStaleMs == 600000
\* _build_price_matrix: "if age > 10" (seconds), in milliseconds.
DexStaleMs == 10000
\* _build_price_matrix: "price.volume_24h < 50000".
MinVolume == 50000
\* _find_opportunities: "buy_price <= 0.000001", in price units.
TinyPrice == 10000
\* The same guard for a symbol whose prices are held in cents (see the
\* cost-model scenarios): no positive number of cents is <= 1e-6.
CentSymbols == {"ETH/USDT"}
TinyPriceOf(symbol) == IF symbol \in CentSymbols THEN 0 ELSE TinyPrice
\* _find_opportunities: "spread_pct > 100".
MaxSpreadPct == 100
\* `now = datetime.now().timestamp()` of _build_price_matrix, in ms.
BuildClock == 700000

\* self._discovered_pairs as normalized symbols, in dict order.
SymbolOrder == <<"PEPE/USDT", "SHIB/USDT">>
Symbols == {SymbolOrder[n] : n \in 1..Len(SymbolOrder)}
\* cex_fetcher._exchanges without the streamed venues, in EXCHANGES order.
RestVenues == <<"coinbase", "gemini">>
\* ws_fetcher._exchanges (ws_active_exchanges).
WsVenues == <<"binance">>
\* dex_aggregator._v2_dexs + _v3_dexs: name, chain, fee_percent in 1/100 %.
Dexs == << [name |-> "Uniswap V2", chain |-> "ETHEREUM", fee_percent |-> 30],
           [name |-> "Camelot", chain |-> "ARBITRUM", fee_percent |-> 30] >>
Chains == {"ETHEREUM", "ARBITRUM"}
ScanTasks == {"cex", "dex", "gas"}
\* PriceSource.chain of a CEX source (None).
NoChain == "NONE"

\* The elements of a sequence, and the concatenation of a sequence of
\* sequences.
Range(seq) == {seq[n] : n \in 1..Len(seq)}
RECURSIVE Flatten(_)
Flatten(seqs) == IF seqs = <<>> THEN <<>> ELSE Head(seqs) \o Flatten(Tail(seqs))

(***************************************************************************)
(* The environment: what the venues answer.                                *)
(***************************************************************************)
\* A ccxt ticker; every field is Optional.
Ticker(bid, ask, timestamp, quoteVolume) ==
    [bid |-> bid, ask |-> ask, timestamp |-> timestamp, quoteVolume |-> quoteVolume]

Fresh == BuildClock - 1000

\* What fetch_tickers of a REST venue can hold for a symbol: no entry, or
\* one ticker.
RestTickers(exchange_id, symbol) ==
    IF exchange_id = "coinbase" /\ symbol = "PEPE/USDT" THEN
        { <<>>,
          <<Ticker(Some(95000), Some(100000), Some(Fresh), None)>>,
          <<Ticker(Some(110000), Some(115000), Some(BuildClock - CexStaleMs), Some(MinVolume))>>,
          <<Ticker(Some(110000), Some(115000), Some(BuildClock - CexStaleMs - 1), Some(1000000))>>,
          <<Ticker(Some(95000), Some(100000), Some(Fresh), Some(MinVolume - 1))>>,
          <<Ticker(None, Some(100000), Some(Fresh), None)>>,
          <<Ticker(Some(95000), Some(0), Some(Fresh), None)>>,
          <<Ticker(Some(95000), Some(100000), None, None)>> }
    ELSE IF exchange_id = "gemini" /\ symbol = "PEPE/USDT" THEN
        { <<>>,
          <<Ticker(Some(98000), Some(100000), Some(Fresh), None)>>,
          <<Ticker(Some(104000), Some(106000), Some(Fresh), Some(60000))>>,
          <<Ticker(Some(10000), Some(12000), Some(Fresh), None)>>,
          <<Ticker(Some(48000), Some(50000), Some(Fresh), None)>>,
          <<Ticker(Some(-98000), Some(100000), Some(Fresh), None)>> }
    ELSE IF exchange_id = "coinbase" /\ symbol = "SHIB/USDT" THEN
        { <<>>, <<Ticker(Some(95000), Some(100000), Some(Fresh), None)>> }
    ELSE IF exchange_id = "gemini" /\ symbol = "SHIB/USDT" THEN
        { <<>>,
          <<Ticker(Some(120000), Some(122000), Some(Fresh), None)>>,
          <<Ticker(Some(122000), Some(120000), Some(Fresh), None)>> }
    ELSE { <<>> }

\* The tickers dict of one REST batch: symbol -> no entry or one ticker.
RestBatches(exchange_id) ==
    { [s \in Symbols |-> IF s = "PEPE/USDT" THEN p ELSE q] :
        p \in RestTickers(exchange_id, "PEPE/USDT"),
        q \in RestTickers(exchange_id, "SHIB/USDT") }

\* The tickers a streamed venue pushes for a symbol.
WsTickers(exchange_id, symbol) ==
    IF exchange_id = "binance" /\ symbol = "PEPE/USDT" THEN
        { Ticker(Some(105000), Some(110000), Some(Fresh), None),
          Ticker(Some(105000), Some(110000), Some(BuildClock - CexStaleMs - 1), None),
          Ticker(Some(105000), Some(110000), None, None),
          Ticker(None, Some(110000), Some(Fresh), None),
          Ticker(Some(105000), Some(0), Some(Fresh), None) }
    ELSE {}
\* datetime.now() when a pushed ticker is received.
WsReceiptTimes == {BuildClock - 2000}

\* What DEXAggregator.get_price has computed for a DEX and a symbol when it
\* reaches its final sanity check (bid_price, ask_price, and the time):
\* nothing (an early `return None`), or the two prices.
DexCandidates(dex, symbol) ==
    IF dex.name = "Uniswap V2" /\ symbol = "PEPE/USDT" THEN
        { <<>>,
          <<[bid_price |-> 102000, ask_price |-> 102000, at |-> BuildClock - 200]>>,
          <<[bid_price |-> 102000, ask_price |-> 102000, at |-> BuildClock - DexStaleMs]>>,
          <<[bid_price |-> 102000, ask_price |-> 102000, at |-> BuildClock - DexStaleMs - 1]>>,
          <<[bid_price |-> 5000, ask_price |-> 5000, at |-> BuildClock - 200]>>,
          <<[bid_price |-> 0, ask_price |-> 102000, at |-> BuildClock - 200]>> }
    ELSE IF dex.name = "Camelot" /\ symbol = "PEPE/USDT" THEN
        { <<>>,
          <<[bid_price |-> 103000, ask_price |-> 103000, at |-> BuildClock - 200]>> }
    ELSE { <<>> }

\* What get_all_gas_estimates returns: chain -> no entry, or the estimate's
\* swap_cost_usd in cents.
GasResults ==
    { [c \in Chains |-> IF c = "ETHEREUM" THEN e ELSE a] :
        e \in {None, Some(800)}, a \in {None, Some(439)} }

(***************************************************************************)
(* REST path: CCXTFetcher.fetch_ticker_batch and fetch_all_prices.         *)
(* CEXPrice.mid is left out: the matrix and the enumerator never read it.  *)
(***************************************************************************)
\* Variant of TickerPrice without the `bid <= 0 or ask <= 0` test.
TickerPriceUnchecked(exchange_id, symbol, ticker) ==
    << [exchange |-> exchange_id, symbol |-> symbol,
        bid |-> OrZero(ticker.bid), ask |-> OrZero(ticker.ask),
        timestamp |-> OrZero(ticker.timestamp),
        volume_24h |-> ticker.quoteVolume] >>

\* The CEXPrice made of one ticker, or nothing for a ticker without a
\* positive bid and ask.
TickerPrice(exchange_id, symbol, ticker) ==
    LET bid == OrZero(ticker.bid)
        ask == OrZero(ticker.ask)
    IN IF bid <= 0 \/ ask <= 0
       THEN <<>>
       ELSE << [exchange |-> exchange_id, symbol |-> symbol,
                bid |-> bid, ask |-> ask,
                timestamp |-> OrZero(ticker.timestamp),
                volume_24h |-> ticker.quoteVolume] >>

FetchTickerBatch(exchange_id, tickers) ==
    [s \in Symbols |->
        IF tickers[s] = <<>> THEN <<>>
        ELSE TickerPrice(exchange_id, s, tickers[s][1])]

\* batches: venue -> tickers dict.  The result lists a symbol's prices in
\* venue order.
FetchAllPrices(batches) ==
    [s \in Symbols |->
        Flatten([n \in 1..Len(RestVenues) |->
            FetchTickerBatch(RestVenues[n], batches[RestVenues[n]])[s]])]

(***************************************************************************)
(* Stream path: CCXTProFetcher._watch_exchange_tickers writes the cache,   *)
(* scan() merges it.  WSPrice.timestamp is the ticker's millisecond stamp  *)
(* divided by 1000.0 and scan() takes int(timestamp * 1000); for epoch     *)
(* milliseconds that round trip returns the stamp, so the cache holds      *)
(* milliseconds here.                                                      *)
(***************************************************************************)
NoPrices == [v \in Range(WsVenues) |-> [s \in Symbols |-> <<>>]]

WatchTicker(latest, exchange_id, symbol, ticker, now) ==
    IF Falsy(ticker.bid) \/ Falsy(ticker.ask)
          \/ ticker.bid[1] <= 0 \/ ticker.ask[1] <= 0
    THEN latest
    ELSE [latest EXCEPT ![exchange_id][symbol] =
            << [exchange |-> exchange_id, symbol |-> symbol,
                bid |-> ticker.bid[1], ask |-> ticker.ask[1],
                timestamp |-> IF Falsy(ticker.timestamp) THEN now
                              ELSE ticker.timestamp[1]] >>]

\* get_latest_price, then the `ws_price and ws_price.bid > 0` test.
WsMerged(latest, exchange_id, symbol) ==
    LET ws_price == latest[exchange_id][symbol]
    IN IF ws_price # <<>> /\ ws_price[1].bid > 0
       THEN << [exchange |-> exchange_id, symbol |-> symbol,
                bid |-> ws_price[1].bid, ask |-> ws_price[1].ask,
                timestamp |-> ws_price[1].timestamp,
                volume_24h |-> None] >>
       ELSE <<>>

MergeWsPrices(cex, latest) ==
    [s \in Symbols |->
        cex[s] \o Flatten([n \in 1..Len(WsVenues) |-> WsMerged(latest, WsVenues[n], s)])]

(***************************************************************************)
(* DEX path: the end of DEXAggregator.get_price, and fetch_all_prices.     *)
(* The `bid_price > 1e12` arm of the sanity check is out of the price      *)
(* range of the model.                                                     *)
(***************************************************************************)
GetPrice(dex, symbol, candidate) ==
    IF candidate.bid_price <= 0 \/ candidate.ask_price <= 0
    THEN <<>>
    ELSE << [dex_name |-> dex.name, chain |-> dex.chain,
             bid |-> candidate.bid_price, ask |-> candidate.ask_price,
             fee_percent |-> dex.fee_percent, timestamp |-> candidate.at] >>

\* candidates: dex index -> symbol -> nothing or one candidate.
DexFetchAllPrices(candidates) ==
    [s \in Symbols |->
        Flatten([n \in 1..Len(Dexs) |->
            IF candidates[n][s] = <<>> THEN <<>>
            ELSE GetPrice(Dexs[n], s, candidates[n][s][1])])]

DexAnswers(n) ==
    { [s \in Symbols |-> IF s = "PEPE/USDT" THEN p ELSE q] :
        p \in DexCandidates(Dexs[n], "PEPE/USDT"),
        q \in DexCandidates(Dexs[n], "SHIB/USDT") }

\* The chain whose endpoints the RPC transport section models, and "every
\* endpoint of the chain fails on every request".
RpcChain == "ETHEREUM"
AllEndpointsFail == \A u \in Endpoints : rpc_behaviour[u] = "fail"

\* Variant of DexAnswersOn that lets a DEX answer whatever its chain does.
DexAnswersDespiteOutage(n) == DexAnswers(n)

\* What a DEX can answer given its chain's endpoints: every contract call
\* goes to an endpoint of the chain, and UniswapV2DEX.get_price and
\* get_reserves turn the exception of a failed call into None, which
\* DEXAggregator.get_price turns into no quote.
DexAnswersOn(n) ==
    IF Dexs[n].chain = RpcChain /\ AllEndpointsFail
    THEN { [s \in Symbols |-> <<>>] }
    ELSE DexAnswers(n)

\* GasEstimator.get_gas_estimate given the outcome of its
\* rpc_manager.get_gas_price call: "except Exception: return None" when the
\* call raised.
GasResultsOn(call) ==
    { result \in GasResults : call.result = "raised" => result[RpcChain] = None }

(***************************************************************************)
(* ArbitrageEngine._build_price_matrix.                                    *)
(***************************************************************************)
\* Variant of CexReliable without the staleness test.
CexReliableVolumeOnly(price, now) ==
    ~(price.volume_24h # None /\ price.volume_24h[1] < MinVolume)

CexReliable(price, now) ==
    /\ ~(now - price.timestamp > CexStaleMs)
    /\ ~(price.volume_24h # None /\ price.volume_24h[1] < MinVolume)

DexReliable(quote, now) ==
    ~(quote.timestamp > 0 /\ now - quote.timestamp > DexStaleMs)

CexSource(price) ==
    [source_type |-> "CEX", source_name |-> price.exchange, chain |-> NoChain,
     bid |-> price.bid, ask |-> price.ask,
     timestamp |-> price.timestamp, volume_24h |-> price.volume_24h]

\* The fee is folded into the DEX quote: bid * (1 - fee%/100), ask * (1 + fee%/100).
DexSource(quote) ==
    [source_type |-> "DEX", source_name |-> quote.dex_name, chain |-> quote.chain,
     bid |-> (quote.bid * (10000 - quote.fee_percent)) \div 10000,
     ask |-> (quote.ask * (10000 + quote.fee_percent)) \div 10000,
     timestamp |-> quote.timestamp, volume_24h |-> None]

\* matrix[symbol]: the reliable CEX prices, then the reliable DEX quotes.
SymbolSources(prices, quotes, now) ==
    LET CexOk(p) == CexReliable(p, now)
        DexOk(q) == DexReliable(q, now)
        cex_kept == SelectSeq(prices, CexOk)
        dex_kept == SelectSeq(quotes, DexOk)
    IN [n \in 1..Len(cex_kept) |-> CexSource(cex_kept[n])]
         \o [n \in 1..Len(dex_kept) |-> DexSource(dex_kept[n])]

BuildPriceMatrix(cex, dex, now) ==
    [s \in Symbols |-> SymbolSources(cex[s], dex[s], now)]

(***************************************************************************)
(* ArbitrageEngine._find_opportunities and its helpers.                    *)
(***************************************************************************)
\* Variant of SlippagePrice that applies no slippage.
SlippagePriceAsQuoted(price, source, is_buy) == price

\* _calculate_slippage_price: the slippage factor in 1/10000;
\* price * (1 + factor) and price * (1 - factor) rounded down, written as
\* price plus or minus the factor's share so that a price in cents fits.
SlippagePrice(price, source, is_buy) ==
    IF source.source_type = "DEX" THEN price
    ELSE LET slippage_factor ==
                 IF source.source_name \in {"binance", "coinbase"} THEN 2 ELSE 5
         IN IF is_buy THEN price + (price * slippage_factor) \div 10000
                      ELSE price - (price * slippage_factor + 9999) \div 10000

\* _get_fallback_gas_cost, in cents.
FallbackGasCost(chain_id) ==
    IF chain_id = "ETHEREUM" THEN 2500
    ELSE IF chain_id = "BSC" THEN 30
    ELSE IF chain_id \in {"ARBITRUM", "OPTIMISM", "BASE", "LINEA", "SCROLL", "ZKSYNC"} THEN 50
    ELSE IF chain_id \in {"POLYGON", "AVALANCHE", "FANTOM"} THEN 10
    ELSE 20

\* The gas of one side of the trade: the chain's estimate or the fallback
\* for a DEX, 0.1 % of the trade size for a CEX.
SideCost(source, estimates) ==
    IF source.source_type = "DEX" /\ source.chain # NoChain
    THEN IF estimates[source.chain] # None
         THEN estimates[source.chain][1]
         ELSE FallbackGasCost(source.chain)
    ELSE IF source.source_type = "CEX"
         THEN (DEFAULT_TRADE_SIZE_USD * 100) \div 1000
         ELSE 0

EstimateGasCost(buy_source, sell_source, estimates) ==
    SideCost(buy_source, estimates) + SideCost(sell_source, estimates)

\* config.fees.get_withdrawal_fee, in cents (the chains of the model).
WithdrawalFee(chain_id) ==
    IF chain_id = NoChain THEN 0
    ELSE IF chain_id = "ETHEREUM" THEN 1500
    ELSE IF chain_id = "ARBITRUM" THEN 100
    ELSE 500

\* Variant of EstimateWithdrawalFee that charges the chain fee whenever the
\* sell side is a DEX, whatever the buy side.
EstimateWithdrawalFeeToAnyDex(buy_source, sell_source) ==
    (IF sell_source.source_type = "DEX"
     THEN WithdrawalFee(sell_source.chain) ELSE 0)
    + (IF buy_source.source_type = "CEX" /\ sell_source.source_type = "CEX"
       THEN 500 ELSE 0)

\* _estimate_withdrawal_fee, in cents.
EstimateWithdrawalFee(buy_source, sell_source) ==
    (IF buy_source.source_type = "CEX" /\ sell_source.source_type = "DEX"
     THEN WithdrawalFee(sell_source.chain) ELSE 0)
    + (IF buy_source.source_type = "CEX" /\ sell_source.source_type = "CEX"
       THEN 500 ELSE 0)

\* settings.PROFIT_LEVELS, thresholds in cents, and get_profit_level.
PROFIT_LEVELS == << [threshold |-> 5000, name |-> "CRITICAL"],
                    [threshold |-> 2000, name |-> "HIGH"],
                    [threshold |-> 500, name |-> "MEDIUM"] >>

\* Variant of GetProfitLevel with `>` for `>=`.
GetProfitLevelStrict(profit_usd) ==
    LET RECURSIVE Scan(_)
        Scan(n) == IF n > Len(PROFIT_LEVELS) THEN "NONE"
                   ELSE IF profit_usd > PROFIT_LEVELS[n].threshold
                        THEN PROFIT_LEVELS[n].name
                        ELSE Scan(n + 1)
    IN Scan(1)

GetProfitLevel(profit_usd) ==
    LET RECURSIVE Scan(_)
        Scan(n) == IF n > Len(PROFIT_LEVELS) THEN "NONE"
                   ELSE IF profit_usd >= PROFIT_LEVELS[n].threshold
                        THEN PROFIT_LEVELS[n].name
                        ELSE Scan(n + 1)
    IN Scan(1)

\* spread_pct in 1/100 of a percent, rounded down.
SpreadPct(buy_price, sell_price) == ((sell_price - buy_price) * 10000) \div buy_price

\* gross_profit = spread_pct / 100 * DEFAULT_TRADE_SIZE_USD, in cents,
\* rounded down.  Costs are whole cents, so `net < MIN_PROFIT_USD` decides
\* the same on the rounded value.
GrossProfit(buy_price, sell_price) ==
    LET scaled == (sell_price - buy_price) * 10000
    IN ((scaled \div buy_price) * DEFAULT_TRADE_SIZE_USD) \div 100
         + (((scaled % buy_price) * DEFAULT_TRADE_SIZE_USD) \div 100) \div buy_price

NetProfit(buy_source, sell_source, estimates) ==
    LET buy_price == SlippagePrice(buy_source.ask, buy_source, TRUE)
        sell_price == SlippagePrice(sell_source.bid, sell_source, FALSE)
    IN GrossProfit(buy_price, sell_price)
         - EstimateGasCost(buy_source, sell_source, estimates)
         - EstimateWithdrawalFee(buy_source, sell_source)

\* Variant of ConsideredPairs where the inner loop starts after i.
ForwardPairs(sources) ==
    LET k == Len(sources)
        all == [n \in 1..(k * k) |-> <<((n - 1) \div k) + 1, ((n - 1) % k) + 1>>]
        Forward(p) == p[1] < p[2]
    IN IF k < 2 THEN <<>> ELSE SelectSeq(all, Forward)

\* The (i, j) index pairs the two nested loops reach past `if i == j`, in
\* loop order; none for a symbol with fewer than two sources.
ConsideredPairs(sources) ==
    LET k == Len(sources)
        all == [n \in 1..(k * k) |-> <<((n - 1) \div k) + 1, ((n - 1) % k) + 1>>]
        Distinct(p) == p[1] # p[2]
    IN IF k < 2 THEN <<>> ELSE SelectSeq(all, Distinct)

\* The body of the inner loop: the opportunity appended for one pair, or
\* nothing.
Evaluate(symbol, buy_source, sell_source, estimates) ==
    LET buy_price == SlippagePrice(buy_source.ask, buy_source, TRUE)
        sell_price == SlippagePrice(sell_source.bid, sell_source, FALSE)
    IN IF buy_price <= TinyPriceOf(symbol) \/ sell_price <= TinyPriceOf(symbol) THEN <<>>
       ELSE IF sell_price - buy_price <= 0
                 \/ sell_price - buy_price > (MaxSpreadPct * buy_price) \div 100
            THEN <<>>
       ELSE LET gross_profit == GrossProfit(buy_price, sell_price)
                gas_cost == EstimateGasCost(buy_source, sell_source, estimates)
                withdrawal_fee == EstimateWithdrawalFee(buy_source, sell_source)
                net_profit == gross_profit - gas_cost - withdrawal_fee
            IN IF net_profit < MIN_PROFIT_USD THEN <<>>
               ELSE << [symbol |-> symbol,
                        buy_source |-> buy_source, sell_source |-> sell_source,
                        buy_price |-> buy_price, sell_price |-> sell_price,
                        spread_pct |-> SpreadPct(buy_price, sell_price),
                        gross_profit_usd |-> gross_profit,
                        gas_cost_usd |-> gas_cost,
                        withdrawal_fee_usd |-> withdrawal_fee,
                        net_profit_usd |-> net_profit,
                        profit_level |-> GetProfitLevel(net_profit)] >>

\* The list before the final sort, for a matrix whose keys are `order`:
\* symbols in dict order, pairs in loop order.
AppendedOpportunitiesOver(order, matrix, estimates) ==
    Flatten([n \in 1..Len(order) |->
        LET symbol == order[n]
            sources == matrix[symbol]
            pairs == ConsideredPairs(sources)
        IN Flatten([m \in 1..Len(pairs) |->
               Evaluate(symbol, sources[pairs[m][1]], sources[pairs[m][2]], estimates)])])

AppendedOpportunities(matrix, estimates) ==
    AppendedOpportunitiesOver(SymbolOrder, matrix, estimates)

\* Variant of SortByNetDesc that leaves the list as appended.
Unsorted(seq) == seq

\* list.sort(key=net_profit_usd, reverse=True): stable, descending.
SortByNetDesc(seq) ==
    LET RECURSIVE Insert(_, _)
        Insert(x, sorted) ==
            IF sorted = <<>> THEN <<x>>
            ELSE IF Head(sorted).net_profit_usd >= x.net_profit_usd
                 THEN <<Head(sorted)>> \o Insert(x, Tail(sorted))
                 ELSE <<x>> \o sorted
        RECURSIVE Sort(_, _)
        Sort(rest, sorted) ==
            IF rest = <<>> THEN sorted
            ELSE Sort(Tail(rest), Insert(Head(rest), sorted))
    IN Sort(seq, <<>>)

FindOpportunities(matrix, estimates) ==
    SortByNetDesc(AppendedOpportunities(matrix, estimates))

(***************************************************************************)
(*                         TRIANGULAR STRATEGY                             *)
(*                                                                         *)
(* TriangularStrategy.find_opportunities over a snapshot of CEX prices     *)
(* (symbol -> list of CEXPrice).  In the snapshots of this component a     *)
(* price is an exact decimal n/d, so that a loop's return is the rational  *)
(* N/D and `profit > min_profit_pct` is decided exactly.                   *)
(***************************************************************************)
HUBS == <<"USDT", "USDC", "BTC", "ETH">>
\* min_profit_pct = 0.1 (percent): a loop return above 1 + 1/1000.
MinProfitDivisor == 1000

Dec(n, d) == [n |-> n, d |-> d]

\* s.split('/')[0] for the symbols of the model.
BaseOf(s) ==
    CASE s = "PEPE/USDT" -> "PEPE"
      [] s = "SHIB/USDT" -> "SHIB"
      [] s \in {"B/USDT", "B/ETH", "B/USDC"} -> "B"
      [] s \in {"ETH/USDT", "ETH/BTC"} -> "ETH"
      [] s = "BTC/USDT" -> "BTC"
      [] s = "USDT/USDC" -> "USDT"

\* `for base in bases` walks a set; the model walks it in this order (the
\* snapshots of the model hold at most one base that is not a hub).
BaseOrder == <<"B", "PEPE", "SHIB", "BTC", "ETH", "USDT">>

\* The (i, j) of `for i in range(len(HUBS)): for j in range(i + 1, len(HUBS))`,
\* in loop order.
HubPairs ==
    LET k == Len(HUBS)
        all == [n \in 1..(k * k) |-> <<((n - 1) \div k) + 1, ((n - 1) % k) + 1>>]
        Upper(p) == p[1] < p[2]
    IN SelectSeq(all, Upper)

\* The snapshot's prices in dict order, and the exchanges in the order in
\* which prices_by_exchange first meets them.
AllPrices(cex, order) == Flatten([n \in 1..Len(order) |-> cex[order[n]]])

ExchangeOrder(prices) ==
    LET RECURSIVE Walk(_, _)
        Walk(n, seen) ==
            IF n > Len(prices) THEN seen
            ELSE IF prices[n].exchange \in Range(seen) THEN Walk(n + 1, seen)
                 ELSE Walk(n + 1, Append(seen, prices[n].exchange))
    IN Walk(1, <<>>)

\* prices_by_exchange[exchange]: symbol -> the last price stored for it.
Markets(prices, exchange) ==
    LET listed == {n \in 1..Len(prices) : prices[n].exchange = exchange}
        Last(s) == CHOOSE n \in listed :
                       /\ prices[n].symbol = s
                       /\ \A m \in listed : prices[m].symbol = s => m <= n
    IN [s \in {prices[n].symbol : n \in listed} |-> prices[Last(s)]]

\* (N/D - 1) * 100 in 1/1000 of a percent, rounded down, for N > D.
ProfitPct(N, D) ==
    LET Pow10(k) == IF k = 0 THEN 1 ELSE IF k = 1 THEN 10 ELSE IF k = 2 THEN 100
                    ELSE IF k = 3 THEN 1000 ELSE 10000
        RECURSIVE Digits(_, _)
        Digits(r, k) == IF k = 0 THEN 0
                        ELSE ((r * 10) \div D) * Pow10(k - 1) + Digits((r * 10) % D, k - 1)
    IN ((N - D) \div D) * 100000 + Digits((N - D) % D, 5)

\* Variant of Profitable with the threshold at -1 %.
ProfitableFromMinusOne(N, D) == N - D > -(D \div 100)

\* profit > self.min_profit_pct for the loop return N/D.
Profitable(N, D) == N - D > D \div MinProfitDivisor

\* The body of the hub loops for one (base, h1, h2): the forward and the
\* reverse loop over base/h1, h1/h2, base/h2, if the venue lists all three.
\* A zero ask raises inside the try and the rest of the body is skipped.
LoopOpportunities(exchange, markets, base, h1, h2) ==
    LET p1_sym == base \o "/" \o h1
        p2_sym == h1 \o "/" \o h2
        p3_sym == base \o "/" \o h2
    IN IF ~({p1_sym, p2_sym, p3_sym} \subseteq DOMAIN markets) THEN <<>>
       ELSE LET m1 == markets[p1_sym]
                m2 == markets[p2_sym]
                m3 == markets[p3_sym]
                \* res3 = m1.bid / m2.ask / m3.ask
                fN == m1.bid.n * m2.ask.d * m3.ask.d
                fD == m1.bid.d * m2.ask.n * m3.ask.n
                \* r_res3 = m3.bid * m2.bid / m1.ask
                rN == m3.bid.n * m2.bid.n * m1.ask.d
                rD == m3.bid.d * m2.bid.d * m1.ask.n
                forward == IF Profitable(fN, fD)
                           THEN << [exchange |-> exchange,
                                    symbol_path |-> <<p1_sym, p2_sym, p3_sym>>,
                                    trade_path |-> <<"SELL", "BUY", "BUY">>,
                                    expected_profit_pct |-> ProfitPct(fN, fD)] >>
                           ELSE <<>>
                reverse == IF Profitable(rN, rD)
                           THEN << [exchange |-> exchange,
                                    symbol_path |-> <<p3_sym, p2_sym, p1_sym>>,
                                    trade_path |-> <<"SELL", "SELL", "BUY">>,
                                    expected_profit_pct |-> ProfitPct(rN, rD)] >>
                           ELSE <<>>
            IN IF fD = 0 THEN <<>>
               ELSE IF rD = 0 THEN forward
               ELSE forward \o reverse

\* The opportunities of one exchange: every base that is not a hub, every
\* hub pair.
ExchangeOpportunities(exchange, markets) ==
    LET bases == {BaseOf(s) : s \in DOMAIN markets}
        Eligible(base) == base \in bases /\ base \notin Range(HUBS)
        walked == SelectSeq(BaseOrder, Eligible)
    IN Flatten([b \in 1..Len(walked) |->
           Flatten([p \in 1..Len(HubPairs) |->
               LoopOpportunities(exchange, markets, walked[b],
                                 HUBS[HubPairs[p][1]], HUBS[HubPairs[p][2]])])])

\* find_opportunities(cex_prices); `order` is the dict order of the symbols.
TriangularFindOpportunities(cex, order) ==
    LET prices == AllPrices(cex, order)
        exchanges == ExchangeOrder(prices)
    IN Flatten([e \in 1..Len(exchanges) |->
           ExchangeOpportunities(exchanges[e], Markets(prices, exchanges[e]))])

(***************************************************************************)
(* The snapshots the strategy is run on: one venue V with any subset of    *)
(* the markets below at the listed prices, and a second venue W that may   *)
(* list B/USDC.                                                            *)
(***************************************************************************)
TriSymbolOrder == <<"B/USDT", "ETH/USDT", "B/ETH", "BTC/USDT", "ETH/BTC",
                    "USDT/USDC", "B/USDC">>
TriSymbols == Range(TriSymbolOrder)

\* bid = ask = n/d.
Quoted(exchange, symbol, n, d) ==
    [exchange |-> exchange, symbol |-> symbol, bid |-> Dec(n, d), ask |-> Dec(n, d)]

\* A quote with a bid and an ask of its own; the last one above is crossed.
Spread(exchange, symbol, bid, ask) ==
    [exchange |-> exchange, symbol |-> symbol, bid |-> bid, ask |-> ask]

VenueQuotes(exchange, symbol) ==
    IF exchange = "V" THEN
        CASE symbol = "B/USDT" -> { Quoted("V", symbol, 100, 1) }
          [] symbol = "ETH/USDT" -> { Quoted("V", symbol, 2000, 1),
                                      Quoted("V", symbol, 3010, 1),
                                      Quoted("V", symbol, 3020, 1) }
          [] symbol = "B/ETH" -> { Quoted("V", symbol, 502, 10000) }
          [] symbol = "BTC/USDT" -> { Quoted("V", symbol, 65000, 1) }
          [] symbol = "ETH/BTC" -> { Quoted("V", symbol, 462, 10000) }
          [] symbol = "USDT/USDC" -> { Quoted("V", symbol, 10001, 10000) }
          [] symbol = "B/USDC" -> { Quoted("V", symbol, 995, 10),
                                    Quoted("V", symbol, 9995, 100),
                                    Quoted("V", symbol, 1006, 10),
                                    Spread("V", symbol, Dec(994, 10), Dec(995, 10)),
                                    Spread("V", symbol, Dec(1006, 10), Dec(995, 10)) }
    ELSE IF symbol = "B/USDC" THEN { Quoted("W", symbol, 995, 10) }
    ELSE {}

\* The lists a symbol can map to: V's price, if any, then W's, if any.
SymbolQuotes(symbol) ==
    { v \o w : v \in {<<>>} \cup {<<q>> : q \in VenueQuotes("V", symbol)},
               w \in {<<>>} \cup {<<q>> : q \in VenueQuotes("W", symbol)} }

TriSnapshots ==
    { [s \in TriSymbols |->
          CASE s = "B/USDT" -> q1 [] s = "ETH/USDT" -> q2 [] s = "B/ETH" -> q3
            [] s = "BTC/USDT" -> q4 [] s = "ETH/BTC" -> q5
            [] s = "USDT/USDC" -> q6 [] s = "B/USDC" -> q7] :
        q1 \in SymbolQuotes("B/USDT"), q2 \in SymbolQuotes("ETH/USDT"),
        q3 \in SymbolQuotes("B/ETH"), q4 \in SymbolQuotes("BTC/USDT"),
        q5 \in SymbolQuotes("ETH/BTC"), q6 \in SymbolQuotes("USDT/USDC"),
        q7 \in SymbolQuotes("B/USDC") }

(***************************************************************************)
(* ArbitrageEngine.scan as steps.  The three gathered tasks complete in    *)
(* any order; the stream writer runs at any time; everything after the     *)
(* gather runs without an await and is one step.                           *)
(***************************************************************************)
NoQuotes == [s \in Symbols |-> <<>>]
NoEstimates == [c \in Chains |-> None]

ScanInit ==
    /\ scan_pc = "idle"
    /\ scan_done = {}
    /\ cex_prices = NoQuotes
    /\ dex_prices = NoQuotes
    /\ gas_result = NoEstimates
    /\ gas_estimates = NoEstimates
    /\ ws_latest = NoPrices
    /\ price_matrix = NoQuotes
    /\ opportunities = <<>>
    /\ triangular_opps = <<>>

\* scan() is entered and the three tasks are created.
ScanStart ==
    /\ scan_pc = "idle"
    /\ scan_pc' = "fetching"
    /\ scan_done' = {}
    /\ UNCHANGED <<cex_prices, dex_prices, gas_result, gas_estimates,
                   ws_latest, price_matrix, opportunities, triangular_opps>>
    /\ UNCHANGED notScanVars

\* cex_fetcher.fetch_all_prices completes.
CexFetched ==
    /\ scan_pc = "fetching"
    /\ "cex" \notin scan_done
    /\ \E coinbase \in RestBatches("coinbase"), gemini \in RestBatches("gemini") :
          cex_prices' = FetchAllPrices(
              [v \in Range(RestVenues) |-> IF v = "coinbase" THEN coinbase ELSE gemini])
    /\ scan_done' = scan_done \cup {"cex"}
    /\ UNCHANGED <<scan_pc, dex_prices, gas_result, gas_estimates,
                   ws_latest, price_matrix, opportunities, triangular_opps>>
    /\ UNCHANGED notScanVars

\* dex_aggregator.fetch_all_prices completes.
DexFetched ==
    /\ scan_pc = "fetching"
    /\ "dex" \notin scan_done
    /\ \E first \in DexAnswersOn(1), second \in DexAnswersOn(2) :
          dex_prices' = DexFetchAllPrices(<<first, second>>)
    /\ scan_done' = scan_done \cup {"dex"}
    /\ UNCHANGED <<scan_pc, cex_prices, gas_result, gas_estimates,
                   ws_latest, price_matrix, opportunities, triangular_opps>>
    /\ UNCHANGED notScanVars

\* gas_estimator.get_all_gas_estimates completes.
GasFetched ==
    /\ scan_pc = "fetching"
    /\ "gas" \notin scan_done
    /\ \E result \in GasResultsOn(rpc_call[GasCaller]) : gas_result' = result
    /\ scan_done' = scan_done \cup {"gas"}
    /\ UNCHANGED <<scan_pc, cex_prices, dex_prices, gas_estimates,
                   ws_latest, price_matrix, opportunities, triangular_opps>>
    /\ UNCHANGED notScanVars

\* A streamed venue pushes a ticker and _watch_exchange_tickers stores it.
WsTick ==
    /\ \E n \in 1..Len(WsVenues), s \in Symbols :
          \E ticker \in WsTickers(WsVenues[n], s), now \in WsReceiptTimes :
              ws_latest' = WatchTicker(ws_latest, WsVenues[n], s, ticker, now)
    /\ UNCHANGED <<scan_pc, scan_done, cex_prices, dex_prices, gas_result,
                   gas_estimates, price_matrix, opportunities, triangular_opps>>
    /\ UNCHANGED notScanVars

\* Variant of GatherComplete that returns as soon as one task is done.
GatherFirstComplete(done) == done # {}

\* "await asyncio.gather(cex_task, dex_task, gas_task)" returns when all
\* three tasks are done.
GatherComplete(done) == done = ScanTasks

\* Variant of CurrentEstimates that keeps an earlier scan's estimate for a
\* chain the gathered map lacks.
RetainedEstimates(retained, gathered) ==
    [c \in Chains |-> IF gathered[c] # None THEN gathered[c] ELSE retained[c]]

\* "self._gas_estimates = gas_estimates": the map gathered in this scan
\* replaces the one the engine held.
CurrentEstimates(retained, gathered) == gathered

\* The gather returns: merge the stream cache, store the gas estimates,
\* build the matrix, run the triangular strategy, enumerate, sort, return.
\* Left out, as nothing modelled reads them: the tokens' approx_price_usd
\* (_update_token_prices), _total_pairs_checked and _last_scan_time.
ScanFinish ==
    /\ scan_pc = "fetching"
    /\ GatherComplete(scan_done)
    /\ LET merged == MergeWsPrices(cex_prices, ws_latest)
           matrix == BuildPriceMatrix(merged, dex_prices, BuildClock)
           estimates == CurrentEstimates(gas_estimates, gas_result)
       IN /\ cex_prices' = merged
          /\ gas_estimates' = estimates
          /\ price_matrix' = matrix
          /\ triangular_opps' = TriangularFindOpportunities(merged, SymbolOrder)
          /\ opportunities' = FindOpportunities(matrix, estimates)
    /\ scan_pc' = "returned"
    /\ UNCHANGED <<scan_done, dex_prices, gas_result, ws_latest>>
    /\ UNCHANGED notScanVars

\* run_continuous hands the list to on_tick; the locals of scan() are gone.
ScanReturn ==
    /\ scan_pc = "returned"
    /\ scan_pc' = "idle"
    /\ scan_done' = {}
    /\ cex_prices' = NoQuotes
    /\ dex_prices' = NoQuotes
    /\ gas_result' = NoEstimates
    /\ price_matrix' = NoQuotes
    /\ opportunities' = <<>>
    /\ UNCHANGED <<gas_estimates, ws_latest, triangular_opps>>
    /\ UNCHANGED notScanVars

ScanNext ==
    \/ ScanStart
    \/ CexFetched
    \/ DexFetched
    \/ GasFetched
    \/ WsTick
    \/ ScanFinish
    \/ ScanReturn

(***************************************************************************)
(* A scan together with the RPC call of its gas task: the gas group is     *)
(* done once rpc_manager.get_gas_price has returned or raised.             *)
(***************************************************************************)
\* get_gas_estimate reaches "await rpc_manager.get_gas_price(chain_id)".
GasCallStart ==
    /\ scan_pc = "fetching"
    /\ "gas" \notin scan_done
    /\ CallStart(GasCaller)

GasCallSelect == CallSelect(GasCaller)
GasCallSucceed == CallSucceed(GasCaller)
GasCallFail == CallFail(GasCaller)

\* get_gas_estimate resumes with the call's outcome and
\* get_all_gas_estimates completes.
GasTaskDone ==
    /\ rpc_call[GasCaller].pc = "done"
    /\ GasFetched

\* The health map when a scan starts, after k earlier calls on a chain that
\* was down: each of them has put one more endpoint in quarantine.
OutageHealths ==
    { [u \in Endpoints |->
          IF u <= k THEN [NewHealth EXCEPT !.failures = UnhealthyFailures]
          ELSE NewHealth] : k \in 0..NumEndpoints }

\* One scan; the chain is down (every endpoint fails every request), up, or
\* unsteady.
OutageInit ==
    /\ rpc_now = 0
    /\ endpoint_health \in OutageHealths
    /\ \E b \in {"fail", "ok", "flaky"} : rpc_behaviour = [u \in Endpoints |-> b]
    /\ rpc_call = [k \in RpcCallers |-> IdleCall]

OutageNext ==
    \/ ScanStart
    \/ CexFetched
    \/ DexFetched
    \/ GasCallStart
    \/ GasCallSelect
    \/ GasCallSucceed
    \/ GasCallFail
    \/ GasTaskDone
    \/ ScanFinish

(***************************************************************************)
(* The strategy run on a snapshot.                                         *)
(***************************************************************************)
NoTriPrices == [s \in TriSymbols |-> <<>>]

TriInit ==
    /\ tri_pc = "ready"
    /\ tri_cex_prices \in TriSnapshots

TriIdle ==
    /\ tri_pc = "idle"
    /\ tri_cex_prices = NoTriPrices

\* triangular_strategy.find_opportunities(cex_prices), the result stored in
\* ArbitrageEngine._triangular_opps.
TriFind ==
    /\ tri_pc = "ready"
    /\ triangular_opps' = TriangularFindOpportunities(tri_cex_prices, TriSymbolOrder)
    /\ tri_pc' = "done"
    /\ UNCHANGED <<tri_cex_prices, scan_pc, scan_done, cex_prices, dex_prices,
                   gas_result, gas_estimates, ws_latest, price_matrix, opportunities>>
    /\ UNCHANGED <<rpcVars, rlVars, streamVars, runVars, bootVars, costVars, mcVars, selVars, tcVars, geVars, wtVars, v3Vars, agVars, mxVars>>

TriNext == TriFind

(***************************************************************************)
(*                        STREAM SUBSCRIPTION COVERAGE                     *)
(*                                                                         *)
(* Which pairs of the universe are asked of which venue: the stream        *)
(* subscription set up by ArbitrageEngine.initialize, ws_fetcher.start and *)
(* _watch_exchange_tickers, and the REST request of every scan.  A pair is *)
(* its rank in the harvest, 1..n; a set of pairs is an interval <<lo, hi>> *)
(* of ranks.  list(set(...)) leaves the order of _discovered_pairs open:   *)
(* it is by ascending or by descending rank here.                          *)
(***************************************************************************)
\* initialize: ws_symbols[:500].
StreamCap == 500
\* _watch_exchange_tickers: max_symbols = 250.
MaxSymbols == 250
\* Sizes of the universe the harvest returns (union with TRADING_PAIRS).
SmallHarvest == 400
LargeHarvest == 700

HarvestSizes == {SmallHarvest, LargeHarvest}
\* cex_fetcher._exchanges, and the venues ws_fetcher.initialize tries.
CexVenues == {"binance", "kraken", "coinbase"}
WS_SUPPORTED == {"binance", "kraken"}

EmptyInterval == <<1, 0>>
In(i, interval) == interval[1] <= i /\ i <= interval[2]
Max(a, b) == IF a >= b THEN a ELSE b
Intersect(x, y) ==
    IF Max(x[1], y[1]) > Min(x[2], y[2]) THEN EmptyInterval
    ELSE <<Max(x[1], y[1]), Min(x[2], y[2])>>
\* The first `count` pairs of an interval listed in the given order.
FirstOf(interval, count, descending) ==
    IF interval[1] > interval[2] THEN EmptyInterval
    ELSE IF descending THEN <<Max(interval[1], interval[2] - count + 1), interval[2]>>
    ELSE <<interval[1], Min(interval[2], interval[1] + count - 1)>>

\* exchange.markets of a venue, as the ranks it lists.
MarketShapes == { <<1, LargeHarvest>>, <<1, 200>>, <<451, LargeHarvest>>, EmptyInterval }

\* self._discovered_pairs as the ranks it holds.
Universe(pairs) == <<1, pairs.n>>

\* _watch_exchange_tickers: the symbols of the call that the venue lists,
\* cut to max_symbols.
HotSymbols(market, symbols, descending) ==
    FirstOf(Intersect(market, symbols), MaxSymbols, descending)

\* fetch_all_prices: the symbols asked of a venue by REST.
RestSymbols(exchange_id, market, pairs, exclude_exchanges) ==
    IF exchange_id \in exclude_exchanges THEN EmptyInterval
    ELSE Intersect(market, Universe(pairs))

StreamInit ==
    /\ stream_pc = "new"
    /\ discovered_pairs = [n |-> 0, descending |-> FALSE]
    /\ exchange_markets \in [CexVenues -> MarketShapes]
    /\ ws_exchanges \in SUBSET WS_SUPPORTED
    /\ hot_symbols = [v \in WS_SUPPORTED |-> EmptyInterval]
    /\ rest_symbols = [v \in CexVenues |-> EmptyInterval]

StreamIdle ==
    /\ stream_pc = "idle"
    /\ discovered_pairs = [n |-> 0, descending |-> FALSE]
    /\ exchange_markets = [v \in CexVenues |-> EmptyInterval]
    /\ ws_exchanges = {}
    /\ hot_symbols = [v \in WS_SUPPORTED |-> EmptyInterval]
    /\ rest_symbols = [v \in CexVenues |-> EmptyInterval]

\* ArbitrageEngine.initialize: harvest, then start one watcher per streamed
\* venue on the first 500 symbols.
EngineInitialize ==
    /\ stream_pc = "new"
    /\ \E n \in HarvestSizes, descending \in BOOLEAN :
          LET pairs == [n |-> n, descending |-> descending]
              ws_symbols == FirstOf(Universe(pairs), StreamCap, descending)
          IN /\ discovered_pairs' = pairs
             /\ hot_symbols' = [v \in WS_SUPPORTED |->
                    IF v \in ws_exchanges
                    THEN HotSymbols(exchange_markets[v], ws_symbols, descending)
                    ELSE EmptyInterval]
    /\ stream_pc' = "ready"
    /\ UNCHANGED <<exchange_markets, ws_exchanges, rest_symbols>>
    /\ UNCHANGED notStreamVars

\* scan(), steps 1 to 3: the harvest is repeated when 600 s have passed;
\* REST is asked for the whole universe on the venues that do not stream.
\* The subscription is not touched (start() returns when already running).
StreamScan ==
    /\ stream_pc = "ready"
    /\ \E pairs \in {discovered_pairs}
                      \cup {[n |-> n, descending |-> d] : n \in HarvestSizes, d \in BOOLEAN} :
          /\ discovered_pairs' = pairs
          /\ rest_symbols' = [v \in CexVenues |->
                 RestSymbols(v, exchange_markets[v], pairs, ws_exchanges)]
    /\ stream_pc' = "scanned"
    /\ UNCHANGED <<exchange_markets, ws_exchanges, hot_symbols>>
    /\ UNCHANGED notStreamVars

\* The scan returns; the next one may start.
StreamScanReturn ==
    /\ stream_pc = "scanned"
    /\ stream_pc' = "ready"
    /\ UNCHANGED <<discovered_pairs, exchange_markets, ws_exchanges, hot_symbols, rest_symbols>>
    /\ UNCHANGED notStreamVars

StreamNext ==
    \/ EngineInitialize
    \/ StreamScan
    \/ StreamScanReturn

(***************************************************************************)
(*                        THE CONTINUOUS SCAN LOOP                         *)
(*                                                                         *)
(* ArbitrageEngine.run_continuous with both hooks given, as                *)
(* TerminalDashboard.run starts it. The coroutine is suspended at one of   *)
(* five awaits: on_scan_start(), scan(), callback(opportunities), the      *)
(* sleep of SCAN_INTERVAL_SECONDS, and the sleep(5) of the error handler.  *)
(* What it awaits can return or raise; Task.cancel() makes the await it is *)
(* suspended at raise CancelledError. The code between two awaits is one   *)
(* step.                                                                   *)
(***************************************************************************)
MaxScans == 3
ScanIntervalMs == 500
ErrorBackoffMs == 5000

\* The awaits inside the try block, and the hooks and scan among them.
TryAwaits == {"on_scan_start", "scan", "callback", "sleep"}
Awaited == {"on_scan_start", "scan", "callback"}

\* The outcome of the scan in progress is recorded.
SetLast(scans, outcome) == [scans EXCEPT ![Len(scans)] = outcome]

RunInit ==
    /\ run_pc = "top"
    /\ run_exit = "none"
    /\ run_timer = 0
    /\ run_log = <<>>
    /\ run_scans = <<>>
    /\ run_ticks = <<>>

RunIdle ==
    /\ run_pc = "idle"
    /\ run_exit = "none"
    /\ run_timer = 0
    /\ run_log = <<>>
    /\ run_scans = <<>>
    /\ run_ticks = <<>>

\* "while True: try:" - an iteration begins by invoking on_scan_start().
IterationStart ==
    /\ run_pc = "top"
    /\ Len(run_scans) < MaxScans
    /\ run_pc' = "on_scan_start"
    /\ run_log' = <<>>
    /\ UNCHANGED <<run_exit, run_timer, run_scans, run_ticks>>
    /\ UNCHANGED notRunVars

\* on_scan_start() returns: "opportunities = await self.scan()" is entered.
OnScanStartReturns ==
    /\ run_pc = "on_scan_start"
    /\ run_pc' = "scan"
    /\ run_log' = Append(run_log, "on_scan_start")
    /\ run_scans' = Append(run_scans, "running")
    /\ UNCHANGED <<run_exit, run_timer, run_ticks>>
    /\ UNCHANGED notRunVars

\* scan() returns its list: callback(opportunities) is invoked with it.
ScanReturns ==
    /\ run_pc = "scan"
    /\ run_pc' = "callback"
    /\ run_log' = Append(run_log, "scan")
    /\ run_scans' = SetLast(run_scans, "returned")
    /\ run_ticks' = Append(run_ticks, Len(run_scans))
    /\ UNCHANGED <<run_exit, run_timer>>
    /\ UNCHANGED notRunVars

\* callback() returns: "await asyncio.sleep(SCAN_INTERVAL_SECONDS)".
CallbackReturns ==
    /\ run_pc = "callback"
    /\ run_pc' = "sleep"
    /\ run_timer' = ScanIntervalMs
    /\ run_log' = Append(run_log, "callback")
    /\ UNCHANGED <<run_exit, run_scans, run_ticks>>
    /\ UNCHANGED notRunVars

\* Variant of Raises in which an exception ends the loop.
RaisesAndExits(op) ==
    /\ run_pc = op
    /\ run_pc' = "exited"
    /\ run_exit' = "returned"
    /\ run_log' = Append(run_log, op \o " raised")
    /\ run_scans' = IF op = "scan" THEN SetLast(run_scans, "raised") ELSE run_scans
    /\ UNCHANGED <<run_timer, run_ticks>>
    /\ UNCHANGED notRunVars

\* Variant of Raises in which the callback is invoked for a scan that raised.
RaisesAndTicks(op) ==
    /\ run_pc = op
    /\ run_pc' = "backoff"
    /\ run_timer' = ErrorBackoffMs
    /\ run_log' = Append(run_log, op \o " raised")
    /\ run_scans' = IF op = "scan" THEN SetLast(run_scans, "raised") ELSE run_scans
    /\ run_ticks' = IF op = "scan" THEN Append(run_ticks, Len(run_scans)) ELSE run_ticks
    /\ UNCHANGED run_exit
    /\ UNCHANGED notRunVars

\* What is awaited raises an Exception: "except Exception as e:
\* logger.error(...); await asyncio.sleep(5)".
Raises(op) ==
    /\ run_pc = op
    /\ run_pc' = "backoff"
    /\ run_timer' = ErrorBackoffMs
    /\ run_log' = Append(run_log, op \o " raised")
    /\ run_scans' = IF op = "scan" THEN SetLast(run_scans, "raised") ELSE run_scans
    /\ UNCHANGED <<run_exit, run_ticks>>
    /\ UNCHANGED notRunVars

\* A sleep ends: the while loop goes round.
SleepDone ==
    /\ run_pc \in {"sleep", "backoff"}
    /\ run_pc' = "top"
    /\ run_timer' = 0
    /\ run_log' = Append(run_log, run_pc)
    /\ UNCHANGED <<run_exit, run_scans, run_ticks>>
    /\ UNCHANGED notRunVars

\* The task is cancelled while suspended inside the try block:
\* "except asyncio.CancelledError: break", and the coroutine returns.
CancelledInTry ==
    /\ run_pc \in TryAwaits
    /\ run_pc' = "exited"
    /\ run_exit' = "returned"
    /\ run_timer' = 0
    /\ run_log' = Append(run_log, "cancelled")
    /\ run_scans' = IF run_pc = "scan" THEN SetLast(run_scans, "cancelled") ELSE run_scans
    /\ UNCHANGED run_ticks
    /\ UNCHANGED notRunVars

\* The task is cancelled while suspended in the sleep(5) of the
\* "except Exception" clause: the CancelledError is raised inside a handler,
\* where no except clause of the try statement applies, and leaves the
\* coroutine.
CancelledInHandler ==
    /\ run_pc = "backoff"
    /\ run_pc' = "exited"
    /\ run_exit' = "CancelledError"
    /\ run_timer' = 0
    /\ run_log' = Append(run_log, "cancelled")
    /\ UNCHANGED <<run_scans, run_ticks>>
    /\ UNCHANGED notRunVars

RunNext ==
    \/ IterationStart
    \/ OnScanStartReturns
    \/ ScanReturns
    \/ CallbackReturns
    \/ \E op \in Awaited : Raises(op)
    \/ SleepDone
    \/ CancelledInTry
    \/ CancelledInHandler

(***************************************************************************)
(*                  START-UP WITH FAILING VENUES AND CHAINS                *)
(*                                                                         *)
(* ArbitrageEngine.initialize and the scans after it, seen from the side   *)
(* of what fails: a venue's handshake (load_markets), the construction of  *)
(* a stream venue, a venue's ticker batch, a chain's endpoints. Each step  *)
(* carries the exception handling of its code; an exception that no        *)
(* handler takes is recorded in boot_raised.                               *)
(***************************************************************************)
\* _init_exchange: "for attempt in range(1, 4)".
HandshakeAttempts == 3
\* harvest_all_markets(min_exchanges=2).
MinExchanges == 2

BootSymbols == {"A/USDT", "B/USDT", "ETH/USDT"}
\* config.tokens.TRADING_PAIRS, the part of the universe that is configured.
BootTradingPairs == {"ETH/USDT"}
\* What a venue may list.
BootMarketLists == { {"A/USDT", "ETH/USDT"}, {"A/USDT", "B/USDT"} }

NewHandshake == [attempt |-> 0, state |-> "pending", slept |-> <<>>]

\* Variant of Backoff that sleeps 1 s after every failure.
BackoffConstant(attempt) == 1

\* "await asyncio.sleep(1.0 * attempt)", seconds.
Backoff(attempt) == 1 * attempt

\* Variant of UpVenues that registers a venue before its load_markets.
UpVenuesUnchecked(h) == {v \in CexVenues : h[v].state # "pending"}

\* cex_fetcher._exchanges: the venues whose load_markets succeeded.
UpVenues(h) == {v \in CexVenues : h[v].state = "up"}

\* Variant of GiveUp that lets the last attempt's exception leave
\* _init_exchange.
GiveUpRaising(h) == [h EXCEPT !.state = "raised"]

\* _init_exchange, the third attempt failed: "raise attempt_err" is taken by
\* the outer "except Exception", which logs a warning, closes the exchange
\* and returns.
GiveUp(h) == [h EXCEPT !.state = "failed"]

\* CCXTFetcher.harvest_all_markets(min_exchanges): the pairs that at least
\* min_exchanges of the initialised venues list.
HarvestAllMarkets(exchanges, markets, min_exchanges) ==
    {p \in BootSymbols :
        Cardinality({v \in exchanges : p \in markets[v]}) >= min_exchanges}

\* fetch_all_prices: the symbols asked of each venue, none of a venue that
\* is not in _exchanges or that is excluded.
AskedSymbols(exchanges, markets, pairs, exclude_exchanges) ==
    [v \in CexVenues |->
        IF v \in exchanges /\ v \notin exclude_exchanges
        THEN pairs \cap markets[v] ELSE {}]

NothingAsked == [v \in CexVenues |-> {}]

BootInit ==
    /\ boot_pc = "cex"
    /\ handshake = [v \in CexVenues |-> NewHandshake]
    /\ boot_markets \in [CexVenues -> BootMarketLists]
    /\ boot_ws = {}
    /\ boot_gas = {}
    /\ boot_harvest = {}
    /\ boot_pairs = {}
    /\ boot_asked = NothingAsked
    /\ boot_raised = "none"

BootIdle ==
    /\ boot_pc = "idle"
    /\ handshake = [v \in CexVenues |-> NewHandshake]
    /\ boot_markets = [v \in CexVenues |-> {}]
    /\ boot_ws = {}
    /\ boot_gas = {}
    /\ boot_harvest = {}
    /\ boot_pairs = {}
    /\ boot_asked = NothingAsked
    /\ boot_raised = "none"

\* _init_exchange(config), one attempt: load_markets succeeds, or raises
\* (an error or wait_for's timeout) and is retried after a backoff, or raises
\* for the third time.
HandshakeAttempt(v) ==
    /\ boot_pc = "cex"
    /\ handshake[v].state = "pending"
    /\ \E ok \in BOOLEAN :
          LET h == handshake[v]
              attempt == h.attempt + 1
          IN handshake' = [handshake EXCEPT ![v] =
                 IF ok THEN [h EXCEPT !.state = "up"]
                 ELSE IF attempt = HandshakeAttempts
                      THEN GiveUp([h EXCEPT !.attempt = attempt])
                      ELSE [h EXCEPT !.attempt = attempt,
                                     !.slept = Append(h.slept, Backoff(attempt))]]
    /\ UNCHANGED <<boot_pc, boot_markets, boot_ws, boot_gas, boot_harvest,
                   boot_pairs, boot_asked, boot_raised>>
    /\ UNCHANGED notBootVars

\* cex_fetcher.initialize: "await asyncio.gather(*tasks)" returns, or raises
\* what a task raised; then the initial harvest and
\* _discovered_pairs = list(set(top_pairs + TRADING_PAIRS)).
CexInitialized ==
    /\ boot_pc = "cex"
    /\ \A v \in CexVenues : handshake[v].state # "pending"
    /\ IF \E v \in CexVenues : handshake[v].state = "raised"
       THEN /\ boot_pc' = "raised"
            /\ boot_raised' = "initialize"
            /\ UNCHANGED <<boot_harvest, boot_pairs>>
       ELSE LET top_pairs == HarvestAllMarkets(UpVenues(handshake), boot_markets,
                                               MinExchanges)
            IN /\ boot_pc' = "ws"
               /\ boot_harvest' = top_pairs
               /\ boot_pairs' = top_pairs \cup BootTradingPairs
               /\ UNCHANGED boot_raised
    /\ UNCHANGED <<handshake, boot_markets, boot_ws, boot_gas, boot_asked>>
    /\ UNCHANGED notBootVars

\* ws_fetcher.initialize and start, dex_aggregator.initialize, and the
\* initial get_all_gas_estimates: a stream venue whose construction raises
\* is logged and left out; a chain whose estimate fails has no entry.
RestInitialized ==
    /\ boot_pc = "ws"
    /\ \E ws \in SUBSET WS_SUPPORTED, gas \in SUBSET Chains :
          /\ boot_ws' = ws
          /\ boot_gas' = gas
    /\ boot_pc' = "ready"
    /\ UNCHANGED <<handshake, boot_markets, boot_harvest, boot_pairs, boot_asked,
                   boot_raised>>
    /\ UNCHANGED notBootVars

\* scan(): the harvest is repeated when 600 s have passed; REST asks the
\* venues that came up and do not stream; a batch that fails is {} and a
\* chain that fails has no quote and no estimate.
BootScan ==
    /\ boot_pc = "ready"
    /\ \E due \in BOOLEAN, gas \in SUBSET Chains :
          LET cex_pairs == HarvestAllMarkets(UpVenues(handshake), boot_markets,
                                             MinExchanges)
              pairs == IF due THEN cex_pairs \cup BootTradingPairs ELSE boot_pairs
          IN /\ boot_harvest' = IF due THEN cex_pairs ELSE boot_harvest
             /\ boot_pairs' = pairs
             /\ boot_asked' = AskedSymbols(UpVenues(handshake), boot_markets,
                                           pairs, boot_ws)
             /\ boot_gas' = gas
    /\ boot_pc' = "scanned"
    /\ UNCHANGED <<handshake, boot_markets, boot_ws, boot_raised>>
    /\ UNCHANGED notBootVars

\* The scan has returned; the next one may start.
BootScanReturn ==
    /\ boot_pc = "scanned"
    /\ boot_pc' = "ready"
    /\ boot_asked' = NothingAsked
    /\ UNCHANGED <<handshake, boot_markets, boot_ws, boot_gas, boot_harvest,
                   boot_pairs, boot_raised>>
    /\ UNCHANGED notBootVars

BootNext ==
    \/ \E v \in CexVenues : HandshakeAttempt(v)
    \/ CexInitialized
    \/ RestInitialized
    \/ BootScan
    \/ BootScanReturn

(***************************************************************************)
(*                         COST-MODEL SCENARIOS                            *)
(*                                                                         *)
(* _find_opportunities run on a matrix that holds one symbol, ETH/USDT,    *)
(* quoted by two CEX venues. The prices of this symbol are integer cents;  *)
(* an effective price is rounded down to the cent, which moves a gross     *)
(* profit by less than a tenth of a cent.                                  *)
(***************************************************************************)
CostSymbolOrder == <<"ETH/USDT">>

\* A venue's quote in USD, as the PriceSource the matrix holds for it.
CostSource(exchange, bid_usd, ask_usd) ==
    CexSource([exchange |-> exchange, bid |-> bid_usd * 100, ask |-> ask_usd * 100,
               timestamp |-> BuildClock, volume_24h |-> None])

\* What the two venues of a scenario quote, bid/ask in USD.
CostQuotesX == { <<2990, 2991>>, <<3000, 3001>>, <<3010, 3011>> }
CostQuotesY == { <<3020, 3021>>, <<3030, 3031>>, <<3040, 3041>>, <<3050, 3051>>,
                 <<3100, 3101>> }
CostVenuesX == {"kraken", "binance"}
CostVenuesY == {"kucoin", "coinbase"}

CostInit ==
    /\ cost_pc = "ready"
    /\ \E x \in CostQuotesX, y \in CostQuotesY, vx \in CostVenuesX, vy \in CostVenuesY :
          cost_matrix = [s \in {"ETH/USDT"} |->
                            << CostSource(vx, x[1], x[2]), CostSource(vy, y[1], y[2]) >>]
    /\ cost_opps = <<>>

CostIdle ==
    /\ cost_pc = "idle"
    /\ cost_matrix = [s \in {"ETH/USDT"} |-> <<>>]
    /\ cost_opps = <<>>

\* self._find_opportunities(price_matrix), no gas estimate being held.
CostFind ==
    /\ cost_pc = "ready"
    /\ cost_opps' = SortByNetDesc(
                        AppendedOpportunitiesOver(CostSymbolOrder, cost_matrix, NoEstimates))
    /\ cost_pc' = "done"
    /\ UNCHANGED cost_matrix
    /\ UNCHANGED notCostVars

CostNext == CostFind

(***************************************************************************)
(*                          MULTICALL.AGGREGATE                            *)
(*                                                                         *)
(* return_data is a sequence of 32-byte words, a word a small number.      *)
(* A decoded Python value is a record: [int |-> n], [bool |-> b], a tuple  *)
(* of those, or None.                                                      *)
(***************************************************************************)
MaxCalls == 3

PyNone == [none |-> TRUE]
PyTuple(values) == [tuple |-> values]

\* The ABI types the adapters ask for, and the words a contract may answer.
OutputTypes == { <<"uint256">>, <<"uint256", "bool">> }
ReturnDatas == { <<>>, <<1>>, <<1, 1>>, <<1, 2>> }

\* Call(target, allow_failure, call_data, output_types); the target and the
\* call data only travel to the contract.
McCallSet == [allow_failure : BOOLEAN, output_types : OutputTypes]
McCallLists == UNION { [1..n -> McCallSet] : n \in 0..MaxCalls }

\* eth_abi decoding one word as one type: a bool must be 0 or 1.
WordDecodes(type, word) == type = "bool" => word \in {0, 1}
DecodeWord(type, word) ==
    IF type = "bool" THEN [bool |-> word = 1] ELSE [int |-> word]

\* decode(output_types, return_data) raises: too few words, or a word that
\* is no value of its type.
DecodeRaises(output_types, return_data) ==
    \/ Len(return_data) < Len(output_types)
    \/ \E k \in 1..Len(output_types) : ~WordDecodes(output_types[k], return_data[k])

\* decode(output_types, return_data): one value per type, from the leading words.
Decode(output_types, return_data) ==
    [k \in 1..Len(output_types) |-> DecodeWord(output_types[k], return_data[k])]

\* The body of aggregate's loop for one (success, return_data).
DecodedEntry(call, result) ==
    IF ~result.success \/ result.return_data = <<>> THEN PyNone
    ELSE IF DecodeRaises(call.output_types, result.return_data) THEN PyNone
    ELSE LET decoded == Decode(call.output_types, result.return_data)
         IN IF Len(decoded) = 1 THEN decoded[1] ELSE PyTuple(decoded)

\* Variant of DecodedResults in which one failed sub-call voids the batch.
DecodedResultsPoisoned(calls, results) ==
    [i \in 1..Len(results) |->
        IF \E j \in 1..Len(results) : ~results[j].success
        THEN PyNone ELSE DecodedEntry(calls[i], results[i])]

\* decoded_results, as the loop over enumerate(results) builds it.
DecodedResults(calls, results) ==
    [i \in 1..Len(results) |-> DecodedEntry(calls[i], results[i])]

\* What the aggregate3 contract call may return for these calls: one
\* (success, return_data) per call; a call that may not fail has not failed.
Aggregate3Results(calls) ==
    { results \in [1..Len(calls) -> [success : BOOLEAN, return_data : ReturnDatas]] :
        \A i \in 1..Len(calls) : ~calls[i].allow_failure => results[i].success }

McInit ==
    /\ mc_pc = "ready"
    /\ mc_calls \in McCallLists
    /\ mc_results = <<>>
    /\ mc_decoded = <<>>

McIdle ==
    /\ mc_pc = "idle"
    /\ mc_calls = <<>>
    /\ mc_results = <<>>
    /\ mc_decoded = <<>>

\* "if not calls: return []"
AggregateEmpty ==
    /\ mc_pc = "ready"
    /\ mc_calls = <<>>
    /\ mc_pc' = "returned"
    /\ UNCHANGED <<mc_calls, mc_results, mc_decoded>>
    /\ UNCHANGED notMcVars

\* The call structs are built and aggregate3(call_structs).call() is awaited.
AggregateCall ==
    /\ mc_pc = "ready"
    /\ mc_calls # <<>>
    /\ mc_pc' = "awaiting"
    /\ UNCHANGED <<mc_calls, mc_results, mc_decoded>>
    /\ UNCHANGED notMcVars

\* aggregate3 returns its results.
Aggregate3Returns ==
    /\ mc_pc = "awaiting"
    /\ mc_results' \in Aggregate3Results(mc_calls)
    /\ mc_pc' = "decoding"
    /\ UNCHANGED <<mc_calls, mc_decoded>>
    /\ UNCHANGED notMcVars

\* aggregate3 raises (the request fails, or the contract reverts because a
\* call that may not fail has failed): "raise e".
Aggregate3Raises ==
    /\ mc_pc = "awaiting"
    /\ mc_pc' = "raised"
    /\ UNCHANGED <<mc_calls, mc_results, mc_decoded>>
    /\ UNCHANGED notMcVars

\* The decoding loop and "return decoded_results".
AggregateReturns ==
    /\ mc_pc = "decoding"
    /\ mc_decoded' = DecodedResults(mc_calls, mc_results)
    /\ mc_pc' = "returned"
    /\ UNCHANGED <<mc_calls, mc_results>>
    /\ UNCHANGED notMcVars

McNext ==
    \/ AggregateEmpty
    \/ AggregateCall
    \/ Aggregate3Returns
    \/ Aggregate3Raises
    \/ AggregateReturns

(***************************************************************************)
(*                          ENDPOINT SELECTION                             *)
(*                                                                         *)
(* _get_best_endpoint called once on a manager that holds the health       *)
(* records of two chains, in any state the records can have reached:       *)
(* failures below or at the quarantine count, a last failure inside or     *)
(* outside the quarantine window, a latency measured or not.               *)
(***************************************************************************)
SelChains == {"ETHEREUM", "BSC"}
SelTimes == {65, 120}
HealthRecords == [failures : {0, UnhealthyFailures}, last_failure : {0, 50},
                  avg_latency_ms : {0} \cup LatencySamples]
\* The records of the chain that is not asked for: fresh, or all in quarantine.
OtherChainHealths ==
    { [u \in Endpoints |-> NewHealth],
      [u \in Endpoints |-> [failures |-> UnhealthyFailures, last_failure |-> 50,
                            avg_latency_ms |-> 0]],
      [u \in Endpoints |-> [failures |-> IF u = 1 THEN UnhealthyFailures ELSE 0,
                            last_failure |-> 50, avg_latency_ms |-> 5]] }

SelInit ==
    /\ sel_pc = "ready"
    /\ sel_now \in SelTimes
    /\ sel_chain \in SelChains
    /\ \E asked \in [Endpoints -> HealthRecords], other \in OtherChainHealths :
          sel_before = [c \in SelChains |-> IF c = sel_chain THEN asked ELSE other]
    /\ sel_health = sel_before
    /\ sel_url = 0

SelIdle ==
    /\ sel_pc = "idle"
    /\ sel_now = 0
    /\ sel_chain = "ETHEREUM"
    /\ sel_before = [c \in SelChains |-> [u \in Endpoints |-> NewHealth]]
    /\ sel_health = sel_before
    /\ sel_url = 0

\* _get_best_endpoint(chain_id): reads and writes _endpoint_health[chain_id].
GetBestEndpoint ==
    /\ sel_pc = "ready"
    /\ sel_url' = BestEndpoint(sel_health[sel_chain], sel_now)
    /\ sel_health' = [sel_health EXCEPT
                         ![sel_chain] = HealthAfterSelect(sel_health[sel_chain], sel_now)]
    /\ sel_pc' = "returned"
    /\ UNCHANGED <<sel_now, sel_chain, sel_before>>
    /\ UNCHANGED notSelVars

SelNext == GetBestEndpoint

(***************************************************************************)
(*                     RPCManager.call AGAINST THE CLOCK                   *)
(*                                                                         *)
(* One call, with the time its attempts take. An endpoint answers, raises  *)
(* or hangs; a request that hangs is ended by the provider's request       *)
(* timeout or by wait_for's timeout, whichever the build lets fire.        *)
(***************************************************************************)
\* Seconds the clock advances in one step.
TcTickSecs == 5

TcInit ==
    /\ tc_pc = "select"
    /\ tc_clock = 0
    /\ tc_started = 0
    /\ tc_attempt = 0
    /\ tc_url = 0
    /\ tc_health = [u \in Endpoints |-> NewHealth]
    /\ tc_behaviour \in [Endpoints -> {"ok", "fail", "hang"}]
    /\ tc_result = "none"

TcIdle ==
    /\ tc_pc = "idle"
    /\ tc_clock = 0
    /\ tc_started = 0
    /\ tc_attempt = 0
    /\ tc_url = 0
    /\ tc_health = [u \in Endpoints |-> NewHealth]
    /\ tc_behaviour = [u \in Endpoints |-> "ok"]
    /\ tc_result = "none"

\* url = _get_best_endpoint(chain_id); start_time = time.time(); the request
\* is awaited under wait_for(..., timeout=20.0).
TimedSelect ==
    /\ tc_pc = "select"
    /\ tc_attempt < NumEndpoints
    /\ tc_url' = BestEndpoint(tc_health, tc_clock)
    /\ tc_health' = HealthAfterSelect(tc_health, tc_clock)
    /\ tc_started' = tc_clock
    /\ tc_pc' = "inflight"
    /\ UNCHANGED <<tc_clock, tc_attempt, tc_behaviour, tc_result>>
    /\ UNCHANGED notTcVars

\* The request returns before any timeout: record_success, return result.
TimedSucceed ==
    /\ tc_pc = "inflight"
    /\ tc_behaviour[tc_url] = "ok"
    /\ tc_clock - tc_started < CallTimeoutSecs
    /\ \E latency_ms \in LatencySamples :
          tc_health' = [tc_health EXCEPT
                           ![tc_url] = RecordSuccess(tc_health[tc_url], tc_clock, latency_ms)]
    /\ tc_pc' = "done"
    /\ tc_attempt' = tc_attempt + 1
    /\ tc_result' = "returned"
    /\ UNCHANGED <<tc_clock, tc_started, tc_url, tc_behaviour>>
    /\ UNCHANGED notTcVars

\* The attempt ends in "except Exception": the endpoint raised, or the request
\* hung until the provider's timeout or wait_for's timeout fired.
\* record_failure(); continue; "raise Exception" after the last iteration.
TimedFail ==
    /\ tc_pc = "inflight"
    /\ \/ tc_behaviour[tc_url] = "fail" /\ tc_clock - tc_started < CallTimeoutSecs
       \/ tc_behaviour[tc_url] = "hang" /\ tc_clock - tc_started >= ProviderTimeoutSecs
    /\ tc_health' = [tc_health EXCEPT
                        ![tc_url] = RecordFailure(tc_health[tc_url], tc_clock)]
    /\ tc_attempt' = tc_attempt + 1
    /\ tc_pc' = IF tc_attempt + 1 = NumEndpoints THEN "done" ELSE "select"
    /\ tc_result' = IF tc_attempt + 1 = NumEndpoints THEN "raised" ELSE "none"
    /\ UNCHANGED <<tc_clock, tc_started, tc_url, tc_behaviour>>
    /\ UNCHANGED notTcVars

\* Time passes while the request is awaited, no further than wait_for's
\* timeout; an endpoint that answers or raises does so before it.
TimedTick ==
    /\ tc_pc = "inflight"
    /\ IF tc_behaviour[tc_url] = "hang"
       THEN tc_clock - tc_started < CallTimeoutSecs
       ELSE tc_clock - tc_started + TcTickSecs < CallTimeoutSecs
    /\ tc_clock' = tc_clock + TcTickSecs
    /\ UNCHANGED <<tc_pc, tc_started, tc_attempt, tc_url, tc_health, tc_behaviour,
                   tc_result>>
    /\ UNCHANGED notTcVars

TcNext ==
    \/ TimedSelect
    \/ TimedSucceed
    \/ TimedFail
    \/ TimedTick

(***************************************************************************)
(*               GasEstimator.get_all_gas_estimates AGAINST THE CLOCK      *)
(*                                                                         *)
(* One get_gas_estimate task per chain, gathered under wait_for with the   *)
(* umbrella timeout. A task ends with a GasEstimate or, when its sampling  *)
(* raised, with None; a task still pending when the timeout fires is       *)
(* cancelled with the gather.                                              *)
(***************************************************************************)
\* "timeout=30.0" of the wait_for around the gather, seconds.
UmbrellaSecs == 30
\* Seconds the clock advances in one step.
GeTickSecs == 10

\* CHAINS.keys(), three of them.
GasChains == Chains \cup {"BSC"}

\* swap_cost_usd a chain's sampling can come to, in cents.
SwapCosts(c) ==
    IF c = "ETHEREUM" THEN {800, 1200}
    ELSE IF c = "ARBITRUM" THEN {439, 45}
    ELSE {12, 30}

PendingTask == [state |-> "pending", estimate |-> None]
DoneTask(estimate) == [state |-> "done", estimate |-> estimate]

GeInit ==
    /\ ge_pc = "idle"
    /\ ge_clock = 0
    /\ ge_tasks = [c \in GasChains |-> PendingTask]
    /\ ge_results = [c \in GasChains |-> None]

GeIdle == GeInit

\* "except asyncio.TimeoutError: estimates = [None] * len(tasks)".
TimedOutEstimates(tasks) == [c \in GasChains |-> None]

\* "for (chain_id, _), estimate in zip(tasks, estimates): if
\* isinstance(estimate, GasEstimate): results[chain_id] = estimate".
ResultsOf(estimates) == [c \in GasChains |-> estimates[c]]

\* get_all_gas_estimates is entered: the native prices are updated, one
\* coroutine per chain is created and the gather is awaited under wait_for.
GetAllGasEstimates ==
    /\ ge_pc # "gathering"
    /\ ge_pc' = "gathering"
    /\ ge_clock' = 0
    /\ ge_tasks' = [c \in GasChains |-> PendingTask]
    /\ ge_results' = [c \in GasChains |-> None]
    /\ UNCHANGED notGeVars

\* get_gas_estimate of one chain returns a GasEstimate before the timeout.
GasTaskReturns ==
    /\ ge_pc = "gathering"
    /\ ge_clock < UmbrellaSecs
    /\ \E c \in GasChains : \E cost \in SwapCosts(c) :
          /\ ge_tasks[c].state = "pending"
          /\ ge_tasks' = [ge_tasks EXCEPT ![c] = DoneTask(Some(cost))]
    /\ UNCHANGED <<ge_pc, ge_clock, ge_results>>
    /\ UNCHANGED notGeVars

\* get_gas_estimate of one chain ends in "except Exception: return None".
GasTaskFails ==
    /\ ge_pc = "gathering"
    /\ ge_clock < UmbrellaSecs
    /\ \E c \in GasChains :
          /\ ge_tasks[c].state = "pending"
          /\ ge_tasks' = [ge_tasks EXCEPT ![c] = DoneTask(None)]
    /\ UNCHANGED <<ge_pc, ge_clock, ge_results>>
    /\ UNCHANGED notGeVars

\* Time passes while some task is pending, no further than the timeout.
GeTick ==
    /\ ge_pc = "gathering"
    /\ ge_clock < UmbrellaSecs
    /\ \E c \in GasChains : ge_tasks[c].state = "pending"
    /\ ge_clock' = IF ge_clock + GeTickSecs < UmbrellaSecs
                   THEN ge_clock + GeTickSecs ELSE UmbrellaSecs
    /\ UNCHANGED <<ge_pc, ge_tasks, ge_results>>
    /\ UNCHANGED notGeVars

\* Every task is done before the timeout: the gather returns their results.
GatherReturns ==
    /\ ge_pc = "gathering"
    /\ \A c \in GasChains : ge_tasks[c].state = "done"
    /\ ge_results' = ResultsOf([c \in GasChains |-> ge_tasks[c].estimate])
    /\ ge_pc' = "returned"
    /\ UNCHANGED <<ge_clock, ge_tasks>>
    /\ UNCHANGED notGeVars

\* The timeout fires with a task pending: wait_for cancels the gather and
\* raises TimeoutError; the except clause and the loop after it run.
UmbrellaTimeout ==
    /\ ge_pc = "gathering"
    /\ ge_clock >= UmbrellaSecs
    /\ \E c \in GasChains : ge_tasks[c].state = "pending"
    /\ ge_results' = ResultsOf(TimedOutEstimates(ge_tasks))
    /\ ge_pc' = "timed_out"
    /\ UNCHANGED <<ge_clock, ge_tasks>>
    /\ UNCHANGED notGeVars

GeNext ==
    \/ GetAllGasEstimates
    \/ GasTaskReturns
    \/ GasTaskFails
    \/ GeTick
    \/ GatherReturns
    \/ UmbrellaTimeout

(***************************************************************************)
(*                 CCXTProFetcher: THE WATCHER TASKS                       *)
(*                                                                         *)
(* start() creates one _watch_exchange_tickers task per streamed venue.    *)
(* A task returns at once when the venue lists none of the symbols, else   *)
(* it loops on watch_tickers, which returns tickers or raises; stop()      *)
(* clears _running and cancels the tasks. A scan asks by REST the venues   *)
(* that are not keys of ws_fetcher._exchanges.                             *)
(***************************************************************************)
\* "await asyncio.sleep(5)" of the error handler, seconds.
BackoffSecs == 5
\* Seconds the clock advances in one step.
WtTickSecs == 1

\* A task that has not finished.
Alive == {"created", "watching", "backoff"}

WtInit ==
    /\ wt_running = FALSE
    /\ wt_exchanges \in SUBSET WS_SUPPORTED
    /\ wt_valid \in [WS_SUPPORTED -> BOOLEAN]
    /\ wt_task = [v \in WS_SUPPORTED |-> "none"]
    /\ wt_slept = [v \in WS_SUPPORTED |-> 0]
    /\ wt_cached = [v \in WS_SUPPORTED |-> FALSE]
    /\ wt_polled = None

WtIdle ==
    /\ wt_running = FALSE
    /\ wt_exchanges = {}
    /\ wt_valid = [v \in WS_SUPPORTED |-> FALSE]
    /\ wt_task = [v \in WS_SUPPORTED |-> "none"]
    /\ wt_slept = [v \in WS_SUPPORTED |-> 0]
    /\ wt_cached = [v \in WS_SUPPORTED |-> FALSE]
    /\ wt_polled = None

\* start(): "if self._running: return"; one task per key of _exchanges.
WsStart ==
    /\ ~wt_running
    /\ \A v \in WS_SUPPORTED : wt_task[v] = "none"
    /\ wt_running' = TRUE
    /\ wt_task' = [v \in WS_SUPPORTED |-> IF v \in wt_exchanges THEN "created" ELSE "none"]
    /\ UNCHANGED <<wt_exchanges, wt_valid, wt_slept, wt_cached, wt_polled>>
    /\ UNCHANGED notWtVars

\* The task runs up to its first await: "if not valid_symbols: return",
\* else the loop is entered and watch_tickers is awaited.
WatcherEnter(v) ==
    /\ wt_task[v] = "created"
    /\ wt_running
    /\ wt_task' = [wt_task EXCEPT ![v] = IF wt_valid[v] THEN "watching" ELSE "returned"]
    /\ UNCHANGED <<wt_running, wt_exchanges, wt_valid, wt_slept, wt_cached, wt_polled>>
    /\ UNCHANGED notWtVars

\* Variant of ErrorHandled where the error leaves the coroutine.
ErrorFatal == "died"

\* "except Exception: await asyncio.sleep(5)": the task is suspended in the
\* sleep of the handler.
ErrorHandled == "backoff"

\* "while self._running": the loop goes on or the coroutine returns.
LoopTest(running) == IF running THEN "watching" ELSE "ended"

\* watch_tickers returns tickers; a valid one is stored in _latest_prices.
WatchReturns(v) ==
    /\ wt_task[v] = "watching"
    /\ wt_running
    /\ wt_cached' = [wt_cached EXCEPT ![v] = TRUE]
    /\ wt_task' = [wt_task EXCEPT ![v] = LoopTest(wt_running)]
    /\ UNCHANGED <<wt_running, wt_exchanges, wt_valid, wt_slept, wt_polled>>
    /\ UNCHANGED notWtVars

\* watch_tickers, or the handling of what it returned, raises an Exception.
WatchRaises(v) ==
    /\ wt_task[v] = "watching"
    /\ wt_running
    /\ wt_task' = [wt_task EXCEPT ![v] = ErrorHandled]
    /\ wt_slept' = [wt_slept EXCEPT ![v] = 0]
    /\ UNCHANGED <<wt_running, wt_exchanges, wt_valid, wt_cached, wt_polled>>
    /\ UNCHANGED notWtVars

\* Time passes in the sleep of the handler.
BackoffTick(v) ==
    /\ wt_task[v] = "backoff"
    /\ wt_running
    /\ wt_slept[v] < BackoffSecs
    /\ wt_slept' = [wt_slept EXCEPT ![v] =
                        IF wt_slept[v] + WtTickSecs < BackoffSecs
                        THEN wt_slept[v] + WtTickSecs ELSE BackoffSecs]
    /\ UNCHANGED <<wt_running, wt_exchanges, wt_valid, wt_task, wt_cached, wt_polled>>
    /\ UNCHANGED notWtVars

\* The sleep is over: back to the loop test.
BackoffDone(v) ==
    /\ wt_task[v] = "backoff"
    /\ wt_running
    /\ wt_slept[v] >= BackoffSecs
    /\ wt_task' = [wt_task EXCEPT ![v] = LoopTest(wt_running)]
    /\ UNCHANGED <<wt_running, wt_exchanges, wt_valid, wt_slept, wt_cached, wt_polled>>
    /\ UNCHANGED notWtVars

\* stop(): _running = False and task.cancel() for every task. A task gets
\* CancelledError at the await it is suspended at: watch_tickers is inside
\* the try ("except asyncio.CancelledError: break"), the sleep(5) is inside
\* the handler, a task that has not run yet never starts.
WsStop ==
    /\ wt_running
    /\ wt_running' = FALSE
    /\ wt_task' = [v \in WS_SUPPORTED |->
                      IF wt_task[v] = "watching" THEN "ended"
                      ELSE IF wt_task[v] \in {"backoff", "created"} THEN "cancelled"
                      ELSE wt_task[v]]
    /\ UNCHANGED <<wt_exchanges, wt_valid, wt_slept, wt_cached, wt_polled>>
    /\ UNCHANGED notWtVars

\* scan(): ws_active_exchanges = list(ws_fetcher._exchanges.keys());
\* fetch_all_prices skips the venues in exclude_exchanges.
WtScan ==
    /\ wt_running
    /\ wt_polled' = Some(CexVenues \ wt_exchanges)
    /\ UNCHANGED <<wt_running, wt_exchanges, wt_valid, wt_task, wt_slept, wt_cached>>
    /\ UNCHANGED notWtVars

WtNext ==
    \/ WsStart
    \/ \E v \in WS_SUPPORTED : WatcherEnter(v)
    \/ \E v \in WS_SUPPORTED : WatchReturns(v)
    \/ \E v \in WS_SUPPORTED : WatchRaises(v)
    \/ \E v \in WS_SUPPORTED : BackoffTick(v)
    \/ \E v \in WS_SUPPORTED : BackoffDone(v)
    \/ WsStop
    \/ WtScan

(***************************************************************************)
(*                        UniswapV3DEX.get_price                           *)
(*                                                                         *)
(* One call: the quoter is asked once per fee tier; a tier's call returns  *)
(* an amount or raises. The price best_amount_out / amount_in is kept as   *)
(* the two amounts.                                                        *)
(***************************************************************************)
FEE_TIERS == <<500, 3000, 10000>>
\* amount_in of the call, in the smallest unit of token_in.
V3AmountIn == 1000
\* Largest amount a tier's quote returns in the model.
MaxAmountOut == 1010

\* What the quoter call of one tier does: it raises, or returns amountOut.
QuoteRaised == [raised |-> TRUE, amount_out |-> 0]
QuoteReturned(amount_out) == [raised |-> FALSE, amount_out |-> amount_out]
TierOutcomes == {QuoteRaised} \cup {QuoteReturned(a) : a \in {0, 990, 1000, MaxAmountOut}}

\* Variant of BestTier where the first tier that raises ends the loop.
BestTierUntilFailure(quotes) ==
    LET RECURSIVE Loop(_, _)
        Loop(n, best) ==
            IF n > Len(FEE_TIERS) THEN best
            ELSE IF quotes[n].raised THEN best
            ELSE IF quotes[n].amount_out > best.amount_out
                 THEN Loop(n + 1, [amount_out |-> quotes[n].amount_out, fee |-> FEE_TIERS[n]])
                 ELSE Loop(n + 1, best)
    IN Loop(1, [amount_out |-> 0, fee |-> 0])

\* "for fee in FEE_TIERS": best_amount_out and best_fee after the loop; a
\* tier that raises is passed over ("except Exception: continue").
BestTier(quotes) ==
    LET RECURSIVE Loop(_, _)
        Loop(n, best) ==
            IF n > Len(FEE_TIERS) THEN best
            ELSE IF quotes[n].raised THEN Loop(n + 1, best)
            ELSE IF quotes[n].amount_out > best.amount_out
                 THEN Loop(n + 1, [amount_out |-> quotes[n].amount_out, fee |-> FEE_TIERS[n]])
                 ELSE Loop(n + 1, best)
    IN Loop(1, [amount_out |-> 0, fee |-> 0])

\* get_price after the loop: None for best_amount_out == 0, else the
\* DEXPrice with price = best_amount_out / amount_in and
\* fee_percent = best_fee / 10000, here in 1/100 of a percent.
V3Price(quotes, amount_in) ==
    LET best == BestTier(quotes)
    IN IF best.amount_out = 0 THEN None
       ELSE Some([amount_out |-> best.amount_out, amount_in |-> amount_in,
                  fee_percent |-> best.fee \div 100])

V3Init ==
    /\ v3_pc = "called"
    /\ v3_setup \in {"ok", "raises"}
    /\ v3_quotes \in [1..Len(FEE_TIERS) -> TierOutcomes]
    /\ v3_price = None

V3Idle ==
    /\ v3_pc = "idle"
    /\ v3_setup = "ok"
    /\ v3_quotes = [n \in 1..Len(FEE_TIERS) |-> QuoteRaised]
    /\ v3_price = None

\* get_price: the rate limiter, the web3 object, the quoter contract or an
\* address checksum may raise before the loop (the outer "except Exception:
\* return None"); else the tiers are asked and the best one is returned.
V3GetPrice ==
    /\ v3_pc = "called"
    /\ v3_price' = IF v3_setup = "raises" THEN None ELSE V3Price(v3_quotes, V3AmountIn)
    /\ v3_pc' = "done"
    /\ UNCHANGED <<v3_setup, v3_quotes>>
    /\ UNCHANGED notV3Vars

V3Next == V3GetPrice

(***************************************************************************)
(*               DEXAggregator.get_price: THE LIQUIDITY FLOOR              *)
(*                                                                         *)
(* One call for a pair both of whose tokens have the same number of        *)
(* decimals (dec_adj = 1). Reserves are in the tokens' smallest units,     *)
(* prices in 1/1000 of a quote token per base token.                       *)
(***************************************************************************)
\* get_decimals of the two tokens.
TokenDecimals == 1
Unit == IF TokenDecimals = 0 THEN 1 ELSE IF TokenDecimals = 1 THEN 10 ELSE 100

\* "threshold = 10000" and "threshold = 2", in quote tokens.
StableThreshold == 10000
NativeThreshold == 2
NativeQuotes == {"ETH", "WETH", "BTC", "WBTC", "BNB", "WBNB"}

\* The pools a call can meet.
Pools(quote_symbol) ==
    IF quote_symbol \in NativeQuotes
    THEN [res_in : {0, 100}, res_out : {2 * Unit - 1, 2 * Unit, 5 * Unit}]
    ELSE [res_in : {0, 50000},
          res_out : {StableThreshold * Unit - 1, StableThreshold * Unit,
                     (StableThreshold + 2000) * Unit}]

\* UniswapV2DEX.get_reserves returns the pair's reserves, or None when a
\* call raised; UniswapV3DEX.get_reserves returns None.
GetReserves(kind, pool, ok) ==
    IF kind = "V2" /\ ok THEN Some(<<pool.res_in, pool.res_out>>) ELSE None

\* "liquidity_val < threshold" for the quote symbol: the pool is rejected.
BelowFloor(res_out, quote_symbol) ==
    IF quote_symbol \in NativeQuotes
    THEN res_out < NativeThreshold * Unit
    ELSE res_out < StableThreshold * Unit

\* From the validation of the spot price to the bid and ask handed to the
\* final sanity check: nothing when the call returns None before it.
Candidate(reserves, spot, quote_symbol) ==
    IF spot = None \/ spot[1] <= 0 THEN None
    ELSE IF reserves # None
    THEN LET res_in == reserves[1][1]
             res_out == reserves[1][2]
             reserve_price == IF res_in > 0 THEN (res_out * 1000) \div res_in ELSE 0
             spot_price == IF reserve_price > 0 THEN reserve_price ELSE spot[1]
             trade_size_wei == (1000 * 1000 * Unit) \div spot_price
         IN IF BelowFloor(res_out, quote_symbol) THEN None
            ELSE Some([bid_price |-> (spot_price * res_in) \div (res_in + trade_size_wei),
                       ask_price |-> spot_price
                                       + (spot_price * trade_size_wei)
                                           \div (res_in + trade_size_wei),
                       at |-> BuildClock])
    ELSE Some([bid_price |-> spot[1], ask_price |-> spot[1], at |-> BuildClock])

AgInit ==
    /\ ag_pc = "called"
    /\ ag_kind \in {"V2", "V3"}
    /\ ag_quote_symbol \in {"USDT", "WETH"}
    /\ ag_pool \in Pools(ag_quote_symbol)
    /\ ag_reserves_ok \in BOOLEAN
    /\ ag_spot \in {None, Some(0), Some(2000)}
    /\ ag_quote = None

AgIdle ==
    /\ ag_pc = "idle"
    /\ ag_kind = "V2"
    /\ ag_quote_symbol = "USDT"
    /\ ag_pool = [res_in |-> 0, res_out |-> 0]
    /\ ag_reserves_ok = TRUE
    /\ ag_spot = None
    /\ ag_quote = None

\* get_price for one adapter: reserves and spot price are gathered, the
\* liquidity check runs when reserves came back, the quote is built.
AggregatorGetPrice ==
    /\ ag_pc = "called"
    /\ LET candidate == Candidate(GetReserves(ag_kind, ag_pool, ag_reserves_ok),
                                  ag_spot, ag_quote_symbol)
           dex == [name |-> ag_kind, chain |-> "ETHEREUM", fee_percent |-> 30]
       IN ag_quote' = IF candidate = None THEN None
                      ELSE GetPrice(dex, ag_quote_symbol, candidate[1])
    /\ ag_pc' = "done"
    /\ UNCHANGED <<ag_kind, ag_quote_symbol, ag_pool, ag_reserves_ok, ag_spot>>
    /\ UNCHANGED notAgVars

AgNext == AggregatorGetPrice

(***************************************************************************)
(*        ArbitrageEngine.scan: THE MATRIX OVER A UNIVERSE OF PAIRS        *)
(* The three fetches and the stream merge of scan() as they loop over the  *)
(* (base, quote) pairs of self._discovered_pairs, of which several can     *)
(* normalize to one symbol.                                                *)
(***************************************************************************)
\* normalize_symbol: CEX_SYMBOL_MAP.get(symbol, symbol), for the wrapped
\* natives of the map.
NormalizeSymbol(symbol) ==
    IF symbol = "WETH" THEN "ETH"
    ELSE IF symbol = "WBTC" THEN "BTC"
    ELSE IF symbol = "WBNB" THEN "BNB"
    ELSE IF symbol = "WMATIC" THEN "MATIC"
    ELSE IF symbol = "WAVAX" THEN "AVAX"
    ELSE symbol

\* f"{normalize_symbol(base)}/{normalize_symbol(quote)}".
Normalized(pair) == NormalizeSymbol(pair[1]) \o "/" \o NormalizeSymbol(pair[2])

\* The pairs the harvest and TRADING_PAIRS can put in the universe.
PairUniverse == { <<"MATIC", "USDT">>, <<"WMATIC", "USDT">>, <<"AVAX", "USDT">> }
MxSymbols == {Normalized(pair) : pair \in PairUniverse}

\* list(set(cex_pairs + TRADING_PAIRS)): a list without repetition, in any
\* order.
PairLists ==
    { l \in UNION {[1..n -> PairUniverse] : n \in 1..Cardinality(PairUniverse)} :
        \A i, j \in 1..Len(l) : i # j => l[i] # l[j] }

\* Token.addresses of the tokens of the universe, on the chains of Dexs;
\* MATIC and WMATIC hold the same address on Ethereum, and AVAX is no
\* symbol of ALL_TOKENS.
TokenChains(symbol) ==
    IF symbol \in {"MATIC", "WMATIC", "USDT"} THEN {"ETHEREUM"}
    ELSE IF symbol = "WAVAX" THEN {"ETHEREUM", "ARBITRUM"}
    ELSE {}
TokenSymbols == {"MATIC", "WMATIC", "WAVAX", "USDT"}

\* scan(): "if base in token_map and quote in token_map".
DexPairs(pairs) ==
    LET Mapped(pair) == pair[1] \in TokenSymbols /\ pair[2] \in TokenSymbols
    IN SelectSeq(pairs, Mapped)

\* What a REST venue's batch holds for a symbol, what the stream cache holds
\* for a venue and a symbol, and what DEXAggregator.get_price computes for a
\* DEX and a pair (nothing when a token has no address on the DEX's chain).
MxRestTickers == { <<>>, <<Ticker(Some(95000), Some(100000), Some(Fresh), None)>> }
MxCached(exchange_id, symbol) ==
    { <<>>,
      << [exchange |-> exchange_id, symbol |-> symbol,
          bid |-> 105000, ask |-> 110000, timestamp |-> Fresh] >> }
MxCandidates(dex, pair) ==
    IF dex.chain \in TokenChains(pair[1]) /\ dex.chain \in TokenChains(pair[2])
    THEN { <<>>, <<[bid_price |-> 102000, ask_price |-> 102000, at |-> BuildClock - 200]>> }
    ELSE { <<>> }

\* The answers of every get_price task: dex index -> pair -> nothing or
\* one candidate.
MxDexAnswers ==
    LET any == UNION {MxCandidates(Dexs[n], pair) : n \in 1..Len(Dexs), pair \in PairUniverse}
    IN { c \in [1..Len(Dexs) -> [PairUniverse -> any]] :
           \A n \in 1..Len(Dexs), pair \in PairUniverse :
               c[n][pair] \in MxCandidates(Dexs[n], pair) }

NoSources == [s \in MxSymbols |-> <<>>]

\* CCXTFetcher.fetch_all_prices(pairs, exclude_exchanges): per venue the
\* symbol_map and mapped_results dicts are keyed by the exchange symbol and
\* the normalized symbol, so a venue adds one price to a symbol however
\* many pairs normalize to it.
FetchAllPricesOver(pairs, batches) ==
    [s \in MxSymbols |->
        IF \A k \in 1..Len(pairs) : Normalized(pairs[k]) # s THEN <<>>
        ELSE Flatten([n \in 1..Len(RestVenues) |->
                 IF batches[RestVenues[n]][s] = <<>> THEN <<>>
                 ELSE TickerPrice(RestVenues[n], s, batches[RestVenues[n]][s][1])])]

\* DEXAggregator.fetch_all_prices(pairs): one get_price task per pair and
\* DEX, its quote appended under the pair's normalized symbol.
DexFetchAllPricesOver(pairs, candidates) ==
    [s \in MxSymbols |->
        Flatten([k \in 1..Len(pairs) |->
            IF Normalized(pairs[k]) # s THEN <<>>
            ELSE Flatten([n \in 1..Len(Dexs) |->
                     IF candidates[n][pairs[k]] = <<>> THEN <<>>
                     ELSE GetPrice(Dexs[n], s, candidates[n][pairs[k]][1])])])]

\* scan(), "4. MERGE WS PRICES": for each streamed venue, for each pair, the
\* cached price of the pair's normalized symbol is appended to that symbol.
MergeWsPricesOver(pairs, cex, latest) ==
    [s \in MxSymbols |->
        cex[s] \o Flatten([n \in 1..Len(WsVenues) |->
                    Flatten([k \in 1..Len(pairs) |->
                        IF Normalized(pairs[k]) # s THEN <<>>
                        ELSE WsMerged(latest, WsVenues[n], s)])])]

MxInit ==
    /\ mx_pc = "idle"
    /\ mx_pairs \in PairLists
    /\ mx_latest = [v \in Range(WsVenues) |-> [s \in MxSymbols |-> <<>>]]
    /\ mx_cex = NoSources
    /\ mx_dex = NoSources
    /\ mx_matrix = NoSources

MxIdle ==
    /\ mx_pc = "idle"
    /\ mx_pairs = << <<"MATIC", "USDT">> >>
    /\ mx_latest = [v \in Range(WsVenues) |-> [s \in MxSymbols |-> <<>>]]
    /\ mx_cex = NoSources
    /\ mx_dex = NoSources
    /\ mx_matrix = NoSources

\* A streamed venue's watcher caches the ticker of a subscribed symbol.
MxWsTick ==
    /\ \E n \in 1..Len(WsVenues), k \in 1..Len(mx_pairs) :
          LET v == WsVenues[n]
              s == Normalized(mx_pairs[k])
          IN \E price \in MxCached(v, s) \ {<<>>} :
                mx_latest' = [mx_latest EXCEPT ![v][s] = price]
    /\ UNCHANGED <<mx_pc, mx_pairs, mx_cex, mx_dex, mx_matrix>>
    /\ UNCHANGED notMxVars

\* scan(): the REST and DEX fetches are created over the pairs and the
\* gather returns their two maps.
MxGather ==
    /\ mx_pc = "idle"
    /\ \E batches \in [Range(RestVenues) -> [MxSymbols -> MxRestTickers]] :
          mx_cex' = FetchAllPricesOver(mx_pairs, batches)
    /\ LET dex_pairs == DexPairs(mx_pairs)
       IN \E candidates \in MxDexAnswers :
             mx_dex' = DexFetchAllPricesOver(dex_pairs, candidates)
    /\ mx_pc' = "gathered"
    /\ UNCHANGED <<mx_pairs, mx_latest, mx_matrix>>
    /\ UNCHANGED notMxVars

\* scan(): the stream merge, then _build_price_matrix.
MxBuild ==
    /\ mx_pc = "gathered"
    /\ LET merged == MergeWsPricesOver(mx_pairs, mx_cex, mx_latest)
       IN /\ mx_cex' = merged
          /\ mx_matrix' = [s \in MxSymbols |->
                              SymbolSources(merged[s], mx_dex[s], BuildClock)]
    /\ mx_pc' = "built"
    /\ UNCHANGED <<mx_pairs, mx_latest, mx_dex>>
    /\ UNCHANGED notMxVars

\* scan() returns; its locals are gone.
MxReturn ==
    /\ mx_pc = "built"
    /\ mx_pc' = "idle"
    /\ mx_cex' = NoSources
    /\ mx_dex' = NoSources
    /\ mx_matrix' = NoSources
    /\ UNCHANGED <<mx_pairs, mx_latest>>
    /\ UNCHANGED notMxVars

MxNext == MxWsTick \/ MxGather \/ MxBuild \/ MxReturn

(***************************************************************************)
(*                            SPECIFICATIONS                               *)
(***************************************************************************)
InitRPC == RpcInit /\ RlIdle /\ ScanInit /\ TriIdle /\ StreamIdle /\ RunIdle /\ BootIdle /\ CostIdle /\ McIdle /\ SelIdle /\ TcIdle /\ GeIdle /\ WtIdle /\ V3Idle /\ AgIdle /\ MxIdle
SpecRPC == InitRPC /\ [][RpcNext]_vars

InitBucket == RlInit /\ RpcIdle /\ ScanInit /\ TriIdle /\ StreamIdle /\ RunIdle /\ BootIdle /\ CostIdle /\ McIdle /\ SelIdle /\ TcIdle /\ GeIdle /\ WtIdle /\ V3Idle /\ AgIdle /\ MxIdle
SpecBucket == InitBucket /\ [][RlNext]_vars
\* The event loop's clock advances and its timer resumes a task whose sleep
\* is over.
SpecBucketFair ==
    /\ SpecBucket
    /\ WF_vars(RlTick)
    /\ \A c \in RlCallers : WF_vars(Wake(c))

InitScan == ScanInit /\ RpcIdle /\ RlIdle /\ TriIdle /\ StreamIdle /\ RunIdle /\ BootIdle /\ CostIdle /\ McIdle /\ SelIdle /\ TcIdle /\ GeIdle /\ WtIdle /\ V3Idle /\ AgIdle /\ MxIdle
SpecScan == InitScan /\ [][ScanNext]_vars

InitTri == TriInit /\ ScanInit /\ RpcIdle /\ RlIdle /\ StreamIdle /\ RunIdle /\ BootIdle /\ CostIdle /\ McIdle /\ SelIdle /\ TcIdle /\ GeIdle /\ WtIdle /\ V3Idle /\ AgIdle /\ MxIdle
SpecTri == InitTri /\ [][TriNext]_vars

InitStream == StreamInit /\ ScanInit /\ TriIdle /\ RpcIdle /\ RlIdle /\ RunIdle /\ BootIdle /\ CostIdle /\ McIdle /\ SelIdle /\ TcIdle /\ GeIdle /\ WtIdle /\ V3Idle /\ AgIdle /\ MxIdle
SpecStream == InitStream /\ [][StreamNext]_vars

InitOutage == OutageInit /\ ScanInit /\ RlIdle /\ TriIdle /\ StreamIdle /\ RunIdle /\ BootIdle /\ CostIdle /\ McIdle /\ SelIdle /\ TcIdle /\ GeIdle /\ WtIdle /\ V3Idle /\ AgIdle /\ MxIdle
SpecOutage == InitOutage /\ [][OutageNext]_vars

InitRun == RunInit /\ ScanInit /\ TriIdle /\ StreamIdle /\ RpcIdle /\ RlIdle /\ BootIdle /\ CostIdle /\ McIdle /\ SelIdle /\ TcIdle /\ GeIdle /\ WtIdle /\ V3Idle /\ AgIdle /\ MxIdle
SpecRun == InitRun /\ [][RunNext]_vars

InitBoot == BootInit /\ ScanInit /\ TriIdle /\ StreamIdle /\ RpcIdle /\ RlIdle /\ RunIdle /\ CostIdle /\ McIdle /\ SelIdle /\ TcIdle /\ GeIdle /\ WtIdle /\ V3Idle /\ AgIdle /\ MxIdle
SpecBoot == InitBoot /\ [][BootNext]_vars

InitCost == CostInit /\ ScanInit /\ TriIdle /\ StreamIdle /\ RpcIdle /\ RlIdle /\ RunIdle /\ BootIdle /\ McIdle /\ SelIdle /\ TcIdle /\ GeIdle /\ WtIdle /\ V3Idle /\ AgIdle /\ MxIdle
SpecCost == InitCost /\ [][CostNext]_vars

InitMulticall == McInit /\ ScanInit /\ TriIdle /\ StreamIdle /\ RpcIdle /\ RlIdle /\ RunIdle /\ BootIdle /\ CostIdle /\ SelIdle /\ TcIdle /\ GeIdle /\ WtIdle /\ V3Idle /\ AgIdle /\ MxIdle
SpecMulticall == InitMulticall /\ [][McNext]_vars

InitSelect ==
    /\ SelInit /\ ScanInit
    /\ RpcIdle /\ RlIdle /\ TriIdle /\ StreamIdle /\ RunIdle /\ BootIdle /\ CostIdle /\ McIdle /\ TcIdle /\ GeIdle /\ WtIdle /\ V3Idle /\ AgIdle /\ MxIdle
SpecSelect == InitSelect /\ [][SelNext]_vars

InitTimedCall ==
    /\ TcInit /\ ScanInit
    /\ RpcIdle /\ RlIdle /\ TriIdle /\ StreamIdle /\ RunIdle /\ BootIdle /\ CostIdle /\ McIdle /\ SelIdle /\ GeIdle /\ WtIdle /\ V3Idle /\ AgIdle /\ MxIdle
SpecTimedCall == InitTimedCall /\ [][TcNext]_vars

InitGasUmbrella ==
    /\ GeInit /\ ScanInit
    /\ RpcIdle /\ RlIdle /\ TriIdle /\ StreamIdle /\ RunIdle /\ BootIdle /\ CostIdle /\ McIdle /\ SelIdle /\ TcIdle /\ WtIdle /\ V3Idle /\ AgIdle /\ MxIdle
SpecGasUmbrella == InitGasUmbrella /\ [][GeNext]_vars

InitWatch ==
    /\ WtInit /\ ScanInit
    /\ RpcIdle /\ RlIdle /\ TriIdle /\ StreamIdle /\ RunIdle /\ BootIdle /\ CostIdle /\ McIdle /\ SelIdle /\ TcIdle /\ GeIdle /\ V3Idle /\ AgIdle /\ MxIdle
SpecWatch == InitWatch /\ [][WtNext]_vars
\* The event loop resumes a task whose sleep is over, and time passes.
SpecWatchFair ==
    /\ SpecWatch
    /\ \A v \in WS_SUPPORTED : WF_vars(BackoffTick(v)) /\ WF_vars(BackoffDone(v))

InitV3Quote ==
    /\ V3Init /\ ScanInit
    /\ RpcIdle /\ RlIdle /\ TriIdle /\ StreamIdle /\ RunIdle /\ BootIdle /\ CostIdle /\ McIdle /\ SelIdle /\ TcIdle /\ GeIdle /\ WtIdle /\ AgIdle /\ MxIdle
SpecV3Quote == InitV3Quote /\ [][V3Next]_vars

InitLiquidity ==
    /\ AgInit /\ ScanInit
    /\ RpcIdle /\ RlIdle /\ TriIdle /\ StreamIdle /\ RunIdle /\ BootIdle /\ CostIdle /\ McIdle /\ SelIdle /\ TcIdle /\ GeIdle /\ WtIdle /\ V3Idle /\ MxIdle
SpecLiquidity == InitLiquidity /\ [][AgNext]_vars

InitMatrix ==
    /\ MxInit /\ ScanInit
    /\ RpcIdle /\ RlIdle /\ TriIdle /\ StreamIdle /\ RunIdle /\ BootIdle /\ CostIdle /\ McIdle /\ SelIdle /\ TcIdle /\ GeIdle /\ WtIdle /\ V3Idle /\ AgIdle
SpecMatrix == InitMatrix /\ [][MxNext]_vars

Init ==
    /\ RpcInit /\ RlInit /\ ScanInit /\ TriInit /\ StreamInit /\ RunInit /\ BootInit
    /\ CostInit /\ McInit /\ SelInit /\ TcInit /\ GeInit /\ WtInit /\ V3Init /\ AgInit /\ MxInit
Next ==
    \/ RpcNext \/ RlNext \/ ScanNext \/ TriNext \/ StreamNext \/ RunNext \/ BootNext
    \/ CostNext \/ McNext \/ SelNext \/ TcNext \/ GeNext \/ WtNext \/ V3Next \/ AgNext \/ MxNext
Spec == Init /\ [][Next]_vars

(***************************************************************************)
(*                                CLAIMS                                   *)
(***************************************************************************)
(***************************************************************************)
(* C1. With the first endpoint failing on every attempt and the second     *)
(* succeeding on every attempt, every call returns a result after at most  *)
(* 2 attempts, and the call has raised the first endpoint's failure count.  *)
(***************************************************************************)
C1_FailoverLaw ==
    (rpc_behaviour[1] = "fail" /\ rpc_behaviour[2] = "ok") =>
        \A k \in RpcCallers :
            rpc_call[k].pc = "done" =>
                /\ rpc_call[k].result = "returned"
                /\ rpc_call[k].attempt <= 2
                /\ rpc_call[k].failed_first

\* acquire() calls on `key` that returned in the window [t1, t2].
ReturnedIn(key, t1, t2) ==
    LET RECURSIVE Sum(_)
        Sum(t) == IF t > t2 THEN 0 ELSE rl_returned[key][t] + Sum(t + 1)
    IN Sum(t1)

(***************************************************************************)
(* C2. For a bucket of rate r and burst b, the acquire() calls that return *)
(* within any window of length T number at most b + r*T (here, with the    *)
(* period 1/r: count * period <= b * period + T).                          *)
(***************************************************************************)
C2_RateBucketLaw ==
    \A key \in RlKeys :
        limiters[key] # NoBucket =>
            \A t1 \in RlTimes : \A t2 \in t1..rl_now :
                ReturnedIn(key, t1, t2) * limiters[key].period
                    <= limiters[key].burst * limiters[key].period + (t2 - t1)

\* The sources of a symbol in the matrix, and the age of one at the build.
Sources(s) == price_matrix[s]
Age(source) == BuildClock - source.timestamp

(***************************************************************************)
(* C3. The price matrix built in a scan never holds a CEX quote older than *)
(* 600 s, a DEX quote older than 10 s, or a quote whose reported 24h       *)
(* quote-volume is below 50 000.                                           *)
(***************************************************************************)
C3_ReliabilityFilter ==
    \A s \in Symbols : \A n \in 1..Len(Sources(s)) :
        LET q == Sources(s)[n]
        IN /\ q.source_type = "CEX" => Age(q) <= CexStaleMs
           /\ q.source_type = "DEX" => Age(q) <= DexStaleMs
           /\ q.volume_24h # None => q.volume_24h[1] >= MinVolume

\* A scan that fetched a stale CEX price, an illiquid CEX price and a stale
\* DEX quote for a symbol, and built a matrix that holds a CEX quote at
\* both thresholds and a DEX quote.
C3_Witness ==
    /\ scan_pc = "returned"
    /\ \E s \in Symbols :
          /\ \E p \in Range(cex_prices[s]) : BuildClock - p.timestamp > CexStaleMs
          /\ \E p \in Range(cex_prices[s]) :
                p.volume_24h # None /\ p.volume_24h[1] < MinVolume
          /\ \E q \in Range(dex_prices[s]) : BuildClock - q.timestamp > DexStaleMs
          /\ \E q \in Range(Sources(s)) : q.source_type = "DEX"

\* The pair (i, j) of a symbol's sources has an entry in the returned list.
Present(s, i, j) ==
    \E n \in 1..Len(opportunities) :
        /\ opportunities[n].symbol = s
        /\ opportunities[n].buy_source = Sources(s)[i]
        /\ opportunities[n].sell_source = Sources(s)[j]

BuyPrice(source) == SlippagePrice(source.ask, source, TRUE)
SellPrice(source) == SlippagePrice(source.bid, source, FALSE)

\* The pair passes the enumerator's guards on the effective prices: both
\* above 1e-6, and a spread that is positive and at most 100 %.
Plausible(buy_source, sell_source) ==
    /\ BuyPrice(buy_source) > TinyPrice
    /\ SellPrice(sell_source) > TinyPrice
    /\ SellPrice(sell_source) > BuyPrice(buy_source)
    /\ SellPrice(sell_source) - BuyPrice(buy_source) <= BuyPrice(buy_source)

AllPairsConsidered ==
    \A s \in Symbols :
        /\ Len(ConsideredPairs(Sources(s))) = Len(Sources(s)) * (Len(Sources(s)) - 1)
        /\ \A i, j \in 1..Len(Sources(s)) :
              (i # j /\ Len(Sources(s)) >= 2) =>
                  <<i, j>> \in Range(ConsideredPairs(Sources(s)))

(***************************************************************************)
(* C4 (as stated). For every symbol with k quotes in the matrix the        *)
(* enumerator considers all k*(k-1) ordered pairs of distinct quotes, and  *)
(* every such pair whose net profit is positive and at or above the        *)
(* min-profit threshold is in the list the scan returns.                   *)
(***************************************************************************)
C4_EveryProfitablePairListed ==
    /\ AllPairsConsidered
    /\ \A s \in Symbols : \A i, j \in 1..Len(Sources(s)) :
          (/\ i # j
           /\ NetProfit(Sources(s)[i], Sources(s)[j], gas_estimates) > 0
           /\ NetProfit(Sources(s)[i], Sources(s)[j], gas_estimates) >= MIN_PROFIT_USD)
              => Present(s, i, j)

(***************************************************************************)
(* C4 (amended). For every symbol with k quotes in the matrix the          *)
(* enumerator considers all k*(k-1) ordered pairs of distinct quotes, and  *)
(* every such pair whose effective buy and sell prices both exceed 1e-6,   *)
(* whose spread is positive and at most 100 %, and whose net profit is at  *)
(* or above the min-profit threshold is in the list the scan returns.      *)
(***************************************************************************)
C4_EveryPlausibleProfitablePairListed ==
    /\ AllPairsConsidered
    /\ \A s \in Symbols : \A i, j \in 1..Len(Sources(s)) :
          (/\ i # j
           /\ Plausible(Sources(s)[i], Sources(s)[j])
           /\ NetProfit(Sources(s)[i], Sources(s)[j], gas_estimates) >= MIN_PROFIT_USD)
              => Present(s, i, j)

\* A returned scan with a symbol of three or more quotes where one
\* profitable pair is listed and another pair with a net profit above the
\* threshold is not, its spread being over 100 % or a price at most 1e-6.
C4_Witness ==
    /\ scan_pc = "returned"
    /\ \E s \in Symbols :
          /\ Len(Sources(s)) >= 3
          /\ \E i, j \in 1..Len(Sources(s)) : i # j /\ Present(s, i, j)
          /\ \E i, j \in 1..Len(Sources(s)) :
                /\ i # j
                /\ ~Plausible(Sources(s)[i], Sources(s)[j])
                /\ NetProfit(Sources(s)[i], Sources(s)[j], gas_estimates) >= MIN_PROFIT_USD
                /\ ~Present(s, i, j)

(***************************************************************************)
(* C5. The list a scan returns is ordered by non-increasing net profit:    *)
(* of two adjacent entries the earlier one's net profit is >= the later    *)
(* one's.                                                                  *)
(***************************************************************************)
C5_SortedByNetProfit ==
    \A n \in 1..(Len(opportunities) - 1) :
        opportunities[n].net_profit_usd >= opportunities[n + 1].net_profit_usd

\* A returned list of three or more entries over two symbols that the
\* loops had appended in another order.
C5_Witness ==
    /\ scan_pc = "returned"
    /\ Len(opportunities) >= 3
    /\ \E n, m \in 1..Len(opportunities) : opportunities[n].symbol # opportunities[m].symbol
    /\ opportunities # AppendedOpportunities(price_matrix, gas_estimates)

(***************************************************************************)
(* C6. Every opportunity a scan returns has net profit >= 5 USD and the    *)
(* highest matching tier: CRITICAL iff net >= 50, HIGH iff 20 <= net < 50, *)
(* MEDIUM iff 5 <= net < 20; none has a missing tier.                      *)
(***************************************************************************)
C6_ThresholdAndTier ==
    \A n \in 1..Len(opportunities) :
        LET net == opportunities[n].net_profit_usd
            tier == opportunities[n].profit_level
        IN /\ net >= 500
           /\ tier = "CRITICAL" <=> net >= 5000
           /\ tier = "HIGH" <=> (2000 <= net /\ net < 5000)
           /\ tier = "MEDIUM" <=> (500 <= net /\ net < 2000)
           /\ tier # "NONE"

\* A returned list with an entry of each tier, one of them exactly at the
\* 20 USD threshold.
C6_Witness ==
    /\ scan_pc = "returned"
    /\ \E n \in 1..Len(opportunities) : opportunities[n].profit_level = "CRITICAL"
    /\ \E n \in 1..Len(opportunities) : opportunities[n].profit_level = "MEDIUM"
    /\ \E n \in 1..Len(opportunities) :
          opportunities[n].net_profit_usd = 2000 /\ opportunities[n].profit_level = "HIGH"

(***************************************************************************)
(* C7. Every quote in the price matrix has bid > 0 and ask > 0, whichever  *)
(* path produced it: REST ticker, stream-cache merge, or DEX adapter with  *)
(* the fee folded in.                                                      *)
(***************************************************************************)
C7_PositiveQuotes ==
    \A s \in Symbols : \A n \in 1..Len(Sources(s)) :
        Sources(s)[n].bid > 0 /\ Sources(s)[n].ask > 0

\* A matrix with a quote from each of the three paths.
C7_Witness ==
    /\ scan_pc = "returned"
    /\ \E s \in Symbols :
          /\ \E q \in Range(Sources(s)) : q.source_name \in Range(RestVenues)
          /\ \E q \in Range(Sources(s)) : q.source_name \in Range(WsVenues)
          /\ \E q \in Range(Sources(s)) : q.source_type = "DEX"

\* Venue V lists exactly the given markets in the snapshot.
VenueLists(symbols) ==
    \A s \in TriSymbols :
        (s \in symbols) <=> (\E q \in Range(tri_cex_prices[s]) : q.exchange = "V")

VenueQuote(symbol, n, d) ==
    \E q \in Range(tri_cex_prices[symbol]) :
        q.exchange = "V" /\ q.bid = Dec(n, d) /\ q.ask = Dec(n, d)

\* The strategy has reported a loop for V with a profit in [lo, hi]
\* (1/1000 of a percent).
Reported(lo, hi) ==
    \E n \in 1..Len(triangular_opps) :
        /\ triangular_opps[n].exchange = "V"
        /\ triangular_opps[n].expected_profit_pct \in lo..hi

(***************************************************************************)
(* C8. For a venue quoting B/USDT at 100, ETH/USDT at 2000 and B/ETH at    *)
(* 0.0502 (bid = ask), the triangular strategy reports an opportunity of   *)
(* about 0.398 % for that venue.                                           *)
(***************************************************************************)
C8_TriangleThroughEth ==
    (/\ tri_pc = "done"
     /\ VenueLists({"B/USDT", "ETH/USDT", "B/ETH"})
     /\ VenueQuote("ETH/USDT", 2000, 1))
        => Reported(390, 410)

(***************************************************************************)
(* C9. For a venue quoting BTC/USDT 65000, ETH/BTC 0.0462 and ETH/USDT     *)
(* 3010 the triangular strategy emits nothing; with ETH/USDT at 3020 it    *)
(* emits an opportunity of 0.268 %.                                        *)
(***************************************************************************)
C9_BtcHubTriangle ==
    (/\ tri_pc = "done"
     /\ VenueLists({"BTC/USDT", "ETH/BTC", "ETH/USDT"}))
        => /\ VenueQuote("ETH/USDT", 3010, 1) =>
                  \A n \in 1..Len(triangular_opps) : triangular_opps[n].exchange # "V"
           /\ VenueQuote("ETH/USDT", 3020, 1) => Reported(260, 275)

\* The pair is asked of the venue in the scan: by its stream subscription
\* or by the REST fetch.
Covered(v, i) ==
    \/ v \in ws_exchanges /\ In(i, hot_symbols[v])
    \/ In(i, rest_symbols[v])

(***************************************************************************)
(* C10. When the harvested universe exceeds the stream capacity of 500,    *)
(* only pairs among the first 500 are subscribed on the streamed venues    *)
(* and REST covers the rest: in every scan, every universe pair that a     *)
(* venue lists is asked of that venue by its subscription or by REST.      *)
(***************************************************************************)
C10_StreamOrRestCoversUniverse ==
    (stream_pc = "scanned" /\ discovered_pairs.n > StreamCap) =>
        \A v \in CexVenues : \A i \in 1..discovered_pairs.n :
            In(i, exchange_markets[v]) => Covered(v, i)

(***************************************************************************)
(* C11. If every endpoint of a chain fails on every request, a call on     *)
(* that chain raises, and it raises after exactly N attempts (N the number *)
(* of configured endpoints); a scan run in that situation returns with no  *)
(* DEX quote of that chain in the matrix, and with every opportunity       *)
(* between two CEX venues that passes the enumerator's guards and the      *)
(* threshold in its list.                                                  *)
(***************************************************************************)
C11_ChainOutage ==
    AllEndpointsFail =>
        /\ \A k \in RpcCallers :
              rpc_call[k].pc = "done" =>
                  /\ rpc_call[k].result = "raised"
                  /\ rpc_call[k].attempt = NumEndpoints
        /\ scan_pc = "returned" =>
              \A s \in Symbols :
                  /\ \A q \in Range(Sources(s)) : q.chain # RpcChain
                  /\ \A i, j \in 1..Len(Sources(s)) :
                        (/\ i # j
                         /\ Sources(s)[i].source_type = "CEX"
                         /\ Sources(s)[j].source_type = "CEX"
                         /\ Plausible(Sources(s)[i], Sources(s)[j])
                         /\ NetProfit(Sources(s)[i], Sources(s)[j], gas_estimates)
                                >= MIN_PROFIT_USD)
                            => Present(s, i, j)

\* A scan on a chain that is down has returned: its gas call raised, the
\* matrix holds a DEX quote of another chain, and the list holds an
\* opportunity between two CEX venues.
C11_Witness ==
    /\ AllEndpointsFail
    /\ scan_pc = "returned"
    /\ rpc_call[GasCaller].result = "raised"
    /\ \E s \in Symbols : \E q \in Range(Sources(s)) : q.source_type = "DEX"
    /\ \E n \in 1..Len(opportunities) :
          /\ opportunities[n].buy_source.source_type = "CEX"
          /\ opportunities[n].sell_source.source_type = "CEX"

\* The n-th entry of the iteration's log is an exception raised by a hook
\* or by the scan.
RaisedAt(n) == run_log[n] \in {op \o " raised" : op \in Awaited}

\* The scans that returned, in invocation order.
ReturnedScans ==
    LET Returned(n) == run_scans[n] = "returned"
    IN SelectSeq([n \in 1..Len(run_scans) |-> n], Returned)

(***************************************************************************)
(* C12. When on_start, scan or on_tick raises an exception other than      *)
(* cancellation, run_continuous sleeps 5 s and then begins a new           *)
(* iteration; it ends only by cancellation, never by a failure.            *)
(***************************************************************************)
C12_FailureNeverEndsLoop ==
    /\ \A n \in 1..Len(run_log) :
          RaisedAt(n) =>
              IF n = Len(run_log)
              THEN run_pc = "backoff" /\ run_timer = ErrorBackoffMs
              ELSE /\ n + 1 = Len(run_log)
                   /\ \/ run_log[n + 1] = "backoff" /\ run_pc = "top"
                      \/ run_log[n + 1] = "cancelled" /\ run_pc = "exited"
    /\ run_pc = "exited" =>
          Len(run_log) > 0 /\ run_log[Len(run_log)] = "cancelled"

\* A scan raised, the loop slept 5 s, and a later scan returned.
C12_Witness ==
    /\ \E n, m \in 1..Len(run_scans) :
          n < m /\ run_scans[n] = "raised" /\ run_scans[m] = "returned"
    /\ run_log = <<"on_scan_start raised", "backoff">>

(***************************************************************************)
(* C13. Each iteration invokes on_start, then one scan, then on_tick with  *)
(* that scan's result, then sleeps scan_interval; no scan starts while     *)
(* another is running; on_tick is invoked once for each scan that          *)
(* returned, never for one that raised, in scan order.                     *)
(***************************************************************************)
C13_OneScanPerIterationInOrder ==
    /\ run_pc = "scan" => run_log = <<"on_scan_start">>
    /\ run_pc = "callback" => run_log = <<"on_scan_start", "scan">>
    /\ run_pc = "sleep" =>
          /\ run_log = <<"on_scan_start", "scan", "callback">>
          /\ run_timer = ScanIntervalMs
    /\ \A n \in 1..Len(run_scans) :
          run_scans[n] = "running" => n = Len(run_scans) /\ run_pc = "scan"
    /\ run_ticks = ReturnedScans

\* Three scans, the second of which raised: on_tick got the first and the
\* third.
C13_Witness ==
    /\ run_scans = <<"returned", "raised", "returned">>
    /\ run_ticks = <<1, 3>>
    /\ run_pc = "sleep"

(***************************************************************************)
(* C14. Cancelled at whichever await it is suspended (on_start, scan,      *)
(* on_tick, the scan-interval sleep, the 5 s sleep after a failure),       *)
(* run_continuous returns; no exception reaches its awaiter.               *)
(***************************************************************************)
C14_CancelReturnsCleanly ==
    run_exit # "CancelledError"

ListedBy(p) == {v \in CexVenues : handshake[v].state = "up" /\ p \in boot_markets[v]}

C16_MatrixAfterJoin ==
    /\ scan_pc = "returned" => scan_done = {"cex", "dex", "gas"}
    /\ (price_matrix # NoQuotes \/ opportunities # <<>>) =>
          /\ scan_pc = "returned"
          /\ scan_done = {"cex", "dex", "gas"}

\* A returned scan whose matrix holds what the REST and DEX groups fetched
\* and whose list was costed with a gas estimate.
C16_Witness ==
    /\ scan_pc = "returned"
    /\ \E s \in Symbols :
          /\ \E q \in Range(Sources(s)) : q.source_name \in Range(RestVenues)
          /\ \E q \in Range(Sources(s)) : q.source_type = "DEX"
    /\ \E c \in Chains : gas_estimates[c] # None
    /\ opportunities # <<>>

\* The scenario of C17 has been evaluated: venue X quotes ETH/USDT 3000/3001,
\* venue Y quotes 3020/3021, both venues at the default 0.05% slippage.
ScenarioX == cost_matrix["ETH/USDT"][1]
ScenarioY == cost_matrix["ETH/USDT"][2]
ScenarioEvaluated ==
    /\ cost_pc = "done"
    /\ ScenarioX = CostSource("kraken", 3000, 3001)
    /\ ScenarioY = CostSource("kucoin", 3020, 3021)
ScenarioGross ==
    GrossProfit(SlippagePrice(ScenarioX.ask, ScenarioX, TRUE),
                SlippagePrice(ScenarioY.bid, ScenarioY, FALSE))
ScenarioNet == NetProfit(ScenarioX, ScenarioY, NoEstimates)

\* C17 as stated: in the scenario, buying on X and selling on Y has a gross
\* profit of about 6.30 USD and a net profit of about 4.30 USD, and the scan
\* emits no opportunity.
C17_GrossAndNetAsStated ==
    ScenarioEvaluated =>
        /\ ScenarioGross \in 620..640
        /\ ScenarioNet \in 420..440
        /\ cost_opps = <<>>

\* C17 as amended: in the scenario, with the 5 USD CEX-to-CEX withdrawal fee,
\* buying on X and selling on Y has a gross profit of about 5.33 USD and a net
\* profit of about -1.67 USD, and the scan emits no opportunity.
C17_GrossAndNetOfTheCode ==
    ScenarioEvaluated =>
        /\ ScenarioGross \in 528..538
        /\ ScenarioNet \in -172..-162
        /\ EstimateWithdrawalFee(ScenarioX, ScenarioY) = 500
        /\ ScenarioNet < MIN_PROFIT_USD
        /\ cost_opps = <<>>

C17_Witness == ScenarioEvaluated /\ cost_opps = <<>>

\* Sub-call i of the batch failed, returned empty data or could not be decoded.
SubCallBad(i) ==
    \/ ~mc_results[i].success
    \/ mc_results[i].return_data = <<>>
    \/ DecodeRaises(mc_calls[i].output_types, mc_results[i].return_data)
\* What aggregate returns for sub-call i when it is submitted alone.
AloneEntry(i) == DecodedResults(<<mc_calls[i]>>, <<mc_results[i]>>)[1]

\* C19: the list aggregate returns has one entry per submitted call, in call
\* order; entry i is null exactly when sub-call i failed, returned empty data
\* or could not be decoded, and every entry is what the same sub-call yields
\* when submitted alone, whatever happened to the others.
C19_OneEntryPerCall ==
    mc_pc = "returned" =>
        /\ Len(mc_decoded) = Len(mc_calls)
        /\ \A i \in 1..Len(mc_calls) :
              /\ (mc_decoded[i] = PyNone) <=> SubCallBad(i)
              /\ mc_decoded[i] = AloneEntry(i)

C19_Witness ==
    /\ mc_pc = "returned"
    /\ Len(mc_calls) = 3
    /\ ~mc_results[1].success
    /\ mc_decoded[1] = PyNone
    /\ mc_decoded[2] = [int |-> 1]
    /\ mc_decoded[3] = PyTuple(<< [int |-> 1], [bool |-> TRUE] >>)

\* C20: within one call, the attempt that follows a failed attempt is made on
\* a different endpoint from the one that just failed, the failed endpoint's
\* failure counter has been incremented, and no call makes more attempts
\* than there are endpoints.
C20_NextAttemptElsewhere ==
    [][\A k \in RpcCallers :
          /\ (rpc_call[k].pc = "inflight" /\ rpc_call'[k].pc # "inflight"
                  /\ rpc_call'[k].result # "returned")
                => endpoint_health'[rpc_call[k].url].failures
                       = endpoint_health[rpc_call[k].url].failures + 1
          /\ (rpc_call[k].pc = "select" /\ rpc_call[k].attempt > 0
                  /\ rpc_call'[k].pc = "inflight")
                => rpc_call'[k].url # rpc_call[k].url
          /\ rpc_call'[k].attempt <= NumEndpoints]_vars

\* The endpoint of the chain asked for was unhealthy at the call: 3 or more
\* failures, the last of them less than 60 s before.
UnhealthyAtCall(u) ==
    /\ sel_before[sel_chain][u].failures >= 3
    /\ sel_now - sel_before[sel_chain][u].last_failure < 60
\* The latency EMA the endpoint had at the call; 0 when none was measured.
EmaAtCall(u) == sel_before[sel_chain][u].avg_latency_ms

\* C21: while some endpoint of the chain is healthy, selection returns a
\* healthy endpoint, and no healthy endpoint with a measured latency has a
\* smaller latency EMA than the one returned.
C21_HealthyOfLeastLatency ==
    (sel_pc = "returned" /\ \E w \in Endpoints : ~UnhealthyAtCall(w)) =>
        /\ ~UnhealthyAtCall(sel_url)
        /\ \A w \in Endpoints :
              (~UnhealthyAtCall(w) /\ EmaAtCall(w) > 0) =>
                  (EmaAtCall(sel_url) > 0 /\ EmaAtCall(sel_url) <= EmaAtCall(w))

C21_Witness ==
    /\ sel_pc = "returned"
    /\ sel_url = 3
    /\ UnhealthyAtCall(1)
    /\ ~UnhealthyAtCall(2)
    /\ EmaAtCall(1) = 2
    /\ EmaAtCall(2) = 5
    /\ EmaAtCall(3) = 2

\* C22: when every endpoint of the chain is unhealthy, selection returns the
\* chain's first endpoint and sets the failure count of every endpoint of
\* that chain to 0, which makes them all healthy, and changes nothing else
\* in that chain's records nor anything in another chain's.
C22_ResetWhenNoneHealthy ==
    (sel_pc = "returned" /\ \A w \in Endpoints : UnhealthyAtCall(w)) =>
        /\ sel_url = 1
        /\ \A u \in Endpoints :
              /\ sel_health[sel_chain][u] =
                    [sel_before[sel_chain][u] EXCEPT !.failures = 0]
              /\ IsHealthy(sel_health[sel_chain][u], sel_now)
        /\ \A c \in SelChains \ {sel_chain} : sel_health[c] = sel_before[c]

C22_Witness ==
    /\ sel_pc = "returned"
    /\ \A w \in Endpoints : UnhealthyAtCall(w)
    /\ sel_url = 1
    /\ \A u \in Endpoints : sel_health[sel_chain][u].failures = 0
    /\ \E c \in SelChains \ {sel_chain} : \E u \in Endpoints :
          sel_health[c][u].failures = UnhealthyFailures

\* C23: every failed RPC request of a scan is recorded against the endpoint
\* that served it and retried on another endpoint. The DEX group completing
\* while every endpoint of its chain fails has raised some endpoint's failure
\* count; a failed attempt of the gas call has raised the failure count of
\* its endpoint, and the attempt after it goes to a different endpoint.
C23_ScanFailuresRecordedAndRetried ==
    [][/\ ("dex" \notin scan_done /\ "dex" \in scan_done' /\ AllEndpointsFail)
            => \E u \in Endpoints :
                   endpoint_health'[u].failures > endpoint_health[u].failures
       /\ (rpc_call[GasCaller].pc = "inflight" /\ rpc_call'[GasCaller].pc # "inflight"
               /\ rpc_call'[GasCaller].result # "returned")
            => endpoint_health'[rpc_call[GasCaller].url].failures
                   = endpoint_health[rpc_call[GasCaller].url].failures + 1
       /\ (rpc_call[GasCaller].pc = "select" /\ rpc_call[GasCaller].attempt > 0
               /\ rpc_call'[GasCaller].pc = "inflight")
            => rpc_call'[GasCaller].url # rpc_call[GasCaller].url]_vars

\* C24: a call is over, returned or raised, about 20 s after it was entered
\* at the latest.
C24_CallCompletesInTime == tc_pc = "done" => tc_clock <= 25

\* C25: acquisition on a key is fair. No acquire on a key returns while a
\* caller that invoked acquire on that key earlier is still waiting in it.
C25_NoOvertaking ==
    [][\A key \in RlKeys :
          (rl_returned'[key][rl_now] > rl_returned[key][rl_now] /\ rl_caller' = rl_caller)
              => ~\E a \in RlCallers :
                     rl_caller[a].pc = "sleeping" /\ rl_caller[a].key = key]_vars

\* The fetched CEX price has a source in the matrix of the scan.
InMatrix(s, p) ==
    \E q \in Range(Sources(s)) :
        q.source_type = "CEX" /\ q.source_name = p.exchange /\ q.bid = p.bid /\ q.ask = p.ask

\* C26: a missing field never makes the matrix drop a quote. A fetched CEX
\* price whose source reported no time (it carries the stamp 0) or a time at
\* most 600 s old, and no volume or a volume of at least 50 000, is in the
\* matrix; a price without a reported time carries its acquisition time.
C26_MissingFieldNeverDrops ==
    scan_pc = "returned" =>
        \A s \in Symbols : \A p \in Range(cex_prices[s]) :
            /\ p.timestamp > 0
            /\ ((p.timestamp = 0 \/ BuildClock - p.timestamp <= CexStaleMs)
                   /\ (p.volume_24h = None \/ p.volume_24h[1] >= MinVolume))
                  => InMatrix(s, p)

\* C27: every quote in the price matrix, from a REST venue, a streamed venue
\* or a DEX, has 0 < bid <= ask.
C27_BidAtMostAsk ==
    \A s \in Symbols : \A q \in Range(Sources(s)) : 0 < q.bid /\ q.bid <= q.ask

\* WITHDRAWAL_FEES_USD of the chains the venues of the model trade on, cents.
ConfiguredWithdrawalFee(chain_id) ==
    CASE chain_id = "ETHEREUM" -> 1500
      [] chain_id = "ARBITRUM" -> 100

\* The withdrawal fee the cost model is to charge for a direction.
StatedWithdrawalFee(buy_source, sell_source) ==
    CASE buy_source.source_type = "CEX" /\ sell_source.source_type = "DEX" ->
             ConfiguredWithdrawalFee(sell_source.chain)
      [] buy_source.source_type = "CEX" /\ sell_source.source_type = "CEX" -> 500
      [] OTHER -> 0

\* C28: the withdrawal fee of a candidate (buy, sell) pair is the sell-side
\* chain's configured fee from CEX to DEX, exactly 5 USD from CEX to CEX and
\* 0 from a DEX; every pair of the matrix is charged so, and every listed
\* opportunity carries that fee.
C28_WithdrawalFeeByDirection ==
    /\ \A s \in Symbols : \A b, x \in Range(Sources(s)) :
           b # x => EstimateWithdrawalFee(b, x) = StatedWithdrawalFee(b, x)
    /\ \A n \in 1..Len(opportunities) :
           opportunities[n].withdrawal_fee_usd =
               StatedWithdrawalFee(opportunities[n].buy_source, opportunities[n].sell_source)

\* A scan has listed an opportunity from a CEX to a DEX.
C28_Witness ==
    \E n \in 1..Len(opportunities) :
        /\ opportunities[n].buy_source.source_type = "CEX"
        /\ opportunities[n].sell_source.source_type = "DEX"
        /\ opportunities[n].withdrawal_fee_usd > 0

\* The static fallback swap cost of a chain, in cents.
StatedFallback(chain_id) ==
    CASE chain_id = "ETHEREUM" -> 2500
      [] chain_id = "BSC" -> 30
      [] chain_id \in {"ARBITRUM", "OPTIMISM", "BASE", "LINEA", "SCROLL", "ZKSYNC"} -> 50
      [] chain_id \in {"POLYGON", "AVALANCHE", "FANTOM"} -> 10
      [] OTHER -> 20

\* The share of one side in the gas cost, given the map gathered in the
\* scan: the chain's estimate, the fallback where the map has none, the
\* trading fee of 1 USD for a CEX.
StatedSideCost(source) ==
    IF source.source_type = "DEX"
    THEN IF gas_result[source.chain] = None
         THEN StatedFallback(source.chain)
         ELSE gas_result[source.chain][1]
    ELSE 100

\* C30: once a scan has enumerated, a DEX side whose chain is absent from
\* the gas map gathered in that scan is charged the chain's static fallback
\* (Ethereum 25, BSC 0.30, rollups 0.50, Polygon/Avalanche/Fantom 0.10,
\* other 0.20 USD), never an estimate kept from an earlier scan: the engine
\* holds no estimate for that chain, and every listed opportunity's gas cost
\* is the sum of its two sides' shares under the gathered map.
C30_FallbackForAbsentChain ==
    scan_pc = "returned" =>
        /\ \A c \in Chains : gas_result[c] = None => gas_estimates[c] = None
        /\ \A n \in 1..Len(opportunities) :
               opportunities[n].gas_cost_usd =
                   StatedSideCost(opportunities[n].buy_source)
                     + StatedSideCost(opportunities[n].sell_source)

\* A scan has listed an opportunity with a DEX side on a chain the gathered
\* gas map has no entry for, charged the fallback of that chain.
C30_Witness ==
    /\ scan_pc = "returned"
    /\ \E n \in 1..Len(opportunities) :
          LET o == opportunities[n]
          IN /\ o.sell_source.source_type = "DEX"
             /\ o.buy_source.source_type = "CEX"
             /\ gas_result[o.sell_source.chain] = None
             /\ o.gas_cost_usd = StatedFallback(o.sell_source.chain) + 100

\* C29: when the 30 s umbrella timeout of gas estimation has fired, the map
\* returned still holds the estimate of every chain whose sampling had
\* completed with one and omits only the chains still pending.
C29_PartialMapOnTimeout ==
    ge_pc = "timed_out" =>
        \A c \in GasChains :
            /\ ge_tasks[c].state = "done" => ge_results[c] = ge_tasks[c].estimate
            /\ ge_tasks[c].state = "pending" => ge_results[c] = None

\* C31: while the subscriber is running, an error raised while a venue's
\* ticker stream is read never ends that venue's task: the task leaves the
\* loop only when it is cancelled or the subscriber is stopped, it resumes
\* watching only after the 5 s of the sleep have passed, and a task in the
\* sleep does resume watching unless the subscriber is stopped.
C31_ErrorNeverEndsWatcher ==
    /\ [][\A v \in WS_SUPPORTED :
            /\ (wt_task[v] \in {"watching", "backoff"}
                   /\ wt_task'[v] \notin {"watching", "backoff"}) => ~wt_running'
            /\ (wt_task[v] = "backoff" /\ wt_task'[v] = "watching")
                   => wt_slept[v] >= 5]_vars
    /\ \A v \in WS_SUPPORTED :
          (wt_task[v] = "backoff") ~> (wt_task[v] = "watching" \/ ~wt_running)

\* A venue's task has caught an error and slept its 5 s while the
\* subscriber runs.
C31_Witness ==
    \E v \in WS_SUPPORTED :
        wt_running /\ wt_task[v] = "backoff" /\ wt_slept[v] = 5

\* C37: a scan leaves a venue out of REST polling only while the venue's
\* watcher task is alive; a venue whose task has returned or died is asked
\* by REST, so that every venue is served by one of the two paths.
C37_RestUnlessWatcherAlive ==
    [][wt_polled' # wt_polled =>
          \A v \in CexVenues :
              v \notin wt_polled'[1] => (v \in WS_SUPPORTED /\ wt_task[v] \in Alive)]_vars

\* The symbols venue V quotes in the snapshot, and its quote of one.
ListedByV == {s \in TriSymbols : \E q \in Range(tri_cex_prices[s]) : q.exchange = "V"}
QuoteOfV(s) == CHOOSE q \in Range(tri_cex_prices[s]) : q.exchange = "V"

\* One unit of the base carried around B -> x -> y -> B over B/x, x/y, B/y
\* returns N/D, the other way round D/N (at the bids, which equal the asks
\* in the quotes this is asked of); one of the two ways is above the
\* threshold.
SomeWayProfitable(bx, xy, by) ==
    LET N == QuoteOfV(bx).bid.n * QuoteOfV(xy).bid.n * QuoteOfV(by).bid.d
        D == QuoteOfV(bx).bid.d * QuoteOfV(xy).bid.d * QuoteOfV(by).bid.n
    IN Profitable(N, D) \/ Profitable(D, N)

\* C32: for the venue, the base B and every pair of distinct hubs, when the
\* venue quotes B/x, B/y and the market x/y between the two hubs, whichever
\* of the two is its base, the loop is evaluated: a loop whose return is
\* above the threshold one way round is reported over these three markets.
C32_LoopOverEitherOrientation ==
    tri_pc = "done" =>
        \A x, y \in Range(HUBS) :
            LET bx == "B/" \o x
                xy == x \o "/" \o y
                by == "B/" \o y
            IN (/\ x # y
                /\ {bx, xy, by} \subseteq ListedByV
                /\ \A s \in {bx, xy, by} : QuoteOfV(s).bid = QuoteOfV(s).ask
                /\ SomeWayProfitable(bx, xy, by))
                   => \E n \in 1..Len(triangular_opps) :
                          /\ triangular_opps[n].exchange = "V"
                          /\ Range(triangular_opps[n].symbol_path) = {bx, xy, by}

\* The strategy has reported, for V, the loop with this path and trades.
ReportedLoop(path, trades) ==
    \E n \in 1..Len(triangular_opps) :
        /\ triangular_opps[n].exchange = "V"
        /\ triangular_opps[n].symbol_path = path
        /\ triangular_opps[n].trade_path = trades

\* 0 < bid <= ask for an exact decimal quote.
Uncrossed(q) ==
    /\ q.bid.n > 0 /\ q.bid.d > 0 /\ q.ask.n > 0 /\ q.ask.d > 0
    /\ q.bid.n * q.ask.d <= q.ask.n * q.bid.d

\* C38: for the venue and any triple of markets (B/h1, h1/h2, B/h2) whose
\* three quotes each have 0 < bid <= ask, one call of the strategy never
\* reports both the forward and the reverse loop of the triple.
C38_NotBothDirections ==
    tri_pc = "done" =>
        \A p \in 1..Len(HubPairs) :
            LET h1 == HUBS[HubPairs[p][1]]
                h2 == HUBS[HubPairs[p][2]]
                p1 == "B/" \o h1
                p2 == h1 \o "/" \o h2
                p3 == "B/" \o h2
            IN ({p1, p2, p3} \subseteq ListedByV
                  /\ \A s \in {p1, p2, p3} : Uncrossed(QuoteOfV(s)))
                   => ~(/\ ReportedLoop(<<p1, p2, p3>>, <<"SELL", "BUY", "BUY">>)
                        /\ ReportedLoop(<<p3, p2, p1>>, <<"SELL", "SELL", "BUY">>))

\* The strategy has run on a triple of uncrossed quotes, one of them with
\* bid < ask, and has reported the forward loop alone.
C38_Witness ==
    /\ tri_pc = "done"
    /\ {"B/USDT", "USDT/USDC", "B/USDC"} \subseteq ListedByV
    /\ \A s \in {"B/USDT", "USDT/USDC", "B/USDC"} : Uncrossed(QuoteOfV(s))
    /\ QuoteOfV("B/USDC").bid # QuoteOfV("B/USDC").ask
    /\ ReportedLoop(<<"B/USDT", "USDT/USDC", "B/USDC">>, <<"SELL", "BUY", "BUY">>)
    /\ ~ReportedLoop(<<"B/USDC", "USDT/USDC", "B/USDT">>, <<"SELL", "SELL", "BUY">>)

\* The tiers whose quote succeeded in the call, by position in FEE_TIERS.
SucceededTiers ==
    IF v3_setup = "raises" THEN {}
    ELSE {n \in 1..Len(FEE_TIERS) : ~v3_quotes[n].raised}

\* C33: the adapter asks the tiers 500, 3000 and 10000 and returns the price
\* of the tier with the largest output among the tiers whose quote
\* succeeded, whatever the other tiers did; it returns no quote iff no tier
\* yields a positive output.
C33_BestSucceededTier ==
    v3_pc = "done" =>
        /\ FEE_TIERS = <<500, 3000, 10000>>
        /\ (v3_price = None) <=> (\A n \in SucceededTiers : v3_quotes[n].amount_out <= 0)
        /\ v3_price # None =>
              \E n \in SucceededTiers :
                  /\ v3_price[1].amount_out = v3_quotes[n].amount_out
                  /\ v3_price[1].amount_in = V3AmountIn
                  /\ v3_price[1].fee_percent * 100 = FEE_TIERS[n]
                  /\ \A m \in SucceededTiers :
                         v3_quotes[m].amount_out <= v3_quotes[n].amount_out

\* A call in which the first tier raised and the price returned is that of
\* the larger of the two other tiers.
C33_Witness ==
    /\ v3_pc = "done"
    /\ v3_setup = "ok"
    /\ v3_quotes[1].raised
    /\ ~v3_quotes[2].raised /\ ~v3_quotes[3].raised
    /\ v3_quotes[3].amount_out > v3_quotes[2].amount_out
    /\ v3_price # None
    /\ v3_price[1].amount_out = v3_quotes[3].amount_out

\* C34: no DEX quote is emitted for a pool whose output-side reserve is
\* below the liquidity floor (10 000 units for a stable quote, 2 units for
\* an ETH/BTC/BNB quote), whatever the kind of the adapter.
C34_NoQuoteBelowFloor ==
    (ag_pc = "done" /\ ag_quote # None) =>
        ag_pool.res_out >= (IF ag_quote_symbol \in {"ETH", "WETH", "BTC", "WBTC", "BNB", "WBNB"}
                            THEN 2 ELSE 10000) * Unit

\* The backoffs slept before the retries after k failures: 1 s, 2 s, ...
LinearBackoffs(k) == [n \in 1..k |-> n]

\* C35 as stated: a handshake is retried up to three times after a failure,
\* with linearly growing backoff, so a venue is given up only when the
\* first attempt and three retries have failed; a venue is registered iff
\* an attempt succeeded, and a venue given up stops no other venue.
C35_ThreeRetries ==
    /\ boot_raised = "none"
    /\ \A v \in CexVenues :
          /\ v \in UpVenues(handshake) <=> handshake[v].state = "up"
          /\ handshake[v].state = "up" =>
                /\ handshake[v].attempt <= 3
                /\ handshake[v].slept = LinearBackoffs(handshake[v].attempt)
          /\ handshake[v].state = "failed" =>
                /\ handshake[v].attempt = 1 + 3
                /\ handshake[v].slept = LinearBackoffs(3)

\* C35, amended: a handshake is attempted up to three times, that is
\* retried up to twice after a failure, with linearly growing backoff (1 s,
\* 2 s); a venue is registered iff an attempt succeeded, and a venue whose
\* three attempts all failed is omitted and stops no other venue.
C35_ThreeAttempts ==
    /\ boot_raised = "none"
    /\ \A v \in CexVenues :
          /\ v \in UpVenues(handshake) <=> handshake[v].state = "up"
          /\ handshake[v].state = "up" =>
                /\ handshake[v].attempt <= 2
                /\ handshake[v].slept = LinearBackoffs(handshake[v].attempt)
          /\ handshake[v].state = "failed" =>
                /\ handshake[v].attempt = 3
                /\ handshake[v].slept = LinearBackoffs(2)

\* Initialisation is over with one venue registered at its third attempt,
\* one given up after three failures and one registered at once.
C35_Witness ==
    /\ boot_pc # "cex"
    /\ \E u, v, w \in CexVenues :
          /\ handshake[u].state = "up" /\ handshake[u].slept = <<1, 2>>
          /\ handshake[v].state = "failed" /\ handshake[v].attempt = 3
          /\ handshake[w].state = "up" /\ handshake[w].attempt = 0

\* C36: for every symbol the price matrix built in a scan holds at most one
\* quote per venue, so the enumerator never pairs a venue with itself,
\* whatever the universe of pairs, pairs that normalize to one symbol
\* included.
C36_OneQuotePerVenue ==
    mx_pc = "built" =>
        \A s \in MxSymbols :
            /\ \A i, j \in 1..Len(mx_matrix[s]) :
                  i # j => mx_matrix[s][i].source_name # mx_matrix[s][j].source_name
            /\ \A p \in Range(ConsideredPairs(mx_matrix[s])) :
                  mx_matrix[s][p[1]].source_name # mx_matrix[s][p[2]].source_name

\* The token count an acquire() on the key finds after its refill.
FoundTokens(key) ==
    Refill(IF limiters[key] = NoBucket THEN DefaultBucket(rl_now) ELSE limiters[key],
           rl_now).tokens

\* C39: every acquire() on a bucket terminates.  A call sleeps only when it
\* finds less than a whole token; its one sleep lasts at most 1/rate (the
\* bucket's period), ends at the time set when it began, and is followed by
\* the return; and every sleeping caller does return, whatever the other
\* callers of the key do.
C39_AcquireTerminates ==
    /\ [](\A c \in RlCallers :
            rl_caller[c].pc = "sleeping" =>
                /\ rl_now <= rl_caller[c].wake
                /\ rl_caller[c].wake - rl_now <= limiters[rl_caller[c].key].period)
    /\ [][\A c \in RlCallers :
            /\ (rl_caller[c].pc = "idle" /\ rl_caller'[c].pc = "sleeping")
                  => LET key == rl_caller'[c].key
                     IN /\ FoundTokens(key) < limiters'[key].period
                        /\ rl_caller'[c].wake - rl_now <= limiters'[key].period
            /\ rl_caller[c].pc = "sleeping"
                  => \/ rl_caller'[c] = rl_caller[c]
                     \/ rl_caller'[c].pc = "idle" /\ rl_now = rl_caller[c].wake]_vars
    /\ \A c \in RlCallers :
          (rl_caller[c].pc = "sleeping") ~> (rl_caller[c].pc = "idle")

\* Every caller is asleep on the key and the sleep of one of them is over.
C39_Witness ==
    /\ \A c \in RlCallers : rl_caller[c].pc = "sleeping"
    /\ \E c \in RlCallers : rl_caller[c].wake = rl_now
====
